---- MODULE Spec2Model ----
(***************************************************************************)
(* Model of the squash metric-detection core of nikhil5hah/sports-analysis *)
(* (src/core/metrics_framework.py, src/sports/squash/detectors/            *)
(* additional_metrics.py, src/backend/services/data_ingestion_service.py). *)
(*                                                                         *)
(* Conventions.                                                            *)
(*  - Heart rates are integer bpm; the generated ones are multiples of 5,  *)
(*    so every rolling mean of window 10 is a multiple of 0.5 and every    *)
(*    floating-point operation of the source on them is exact.             *)
(*  - A missing value (NaN) is the sentinel NaN.                           *)
(*  - Non-integer numbers (minutes, confidences) are exact fractions       *)
(*    <<numerator, denominator>> with a positive denominator.              *)
(*  - Python's None is the empty tuple, or NoneInt where an integer is     *)
(*    expected.                                                            *)
(*  - Indices are the source's 0-based indices; At(s, i) reads s[i+1].     *)
(*  - Timestamps are uniformly spaced: timestamp[i] = i * period seconds,  *)
(*    so time_diff (when the column exists) is NaN, period, period, ...    *)
(*    and its mean is period, as preprocess_data computes it.              *)
(***************************************************************************)
EXTENDS Integers, Sequences, FiniteSets, TLC

VARIABLES
    df,           \* the sample series handed to the framework
    nruns,        \* number of runs of samples appended to df so far
    detectors,    \* MetricsFramework.detectors: metric names in insertion order
    results,      \* MetricsFramework.results
    context,      \* the context argument of detect_all_metrics
    pc,           \* position of detect_all_metrics: "idle", "running", "done"
    idx,          \* loop position of detect_all_metrics in detectors
    run_results,  \* the local mapping `results` of detect_all_metrics
    zone_in,      \* input of the zone classifiers: [hr, max_hr20]
    zone_out,     \* their outputs: [core, service], or None
    scan_out,     \* what the scans of one series recorded, or None
    session_context,  \* ModularAnalysisEngine.session_context
    event_analysis,   \* what EventDetector.analyze_session returned, or None
    performance_analysis  \* what the methods of PerformanceAnalyzer returned

vars == <<df, nruns, detectors, results, context, pc, idx, run_results,
          zone_in, zone_out, scan_out, session_context,
          event_analysis, performance_analysis>>

\* Python's None, where the model holds a tuple or a record
None == <<>>

\* the empty dict (a dict is a function from its keys):
\* ModularAnalysisEngine.session_context after __init__
NoSession == <<>>

\* a PerformanceAnalyzer none of whose methods has been called
NoPerformance == [deterioration |-> <<>>, intensity_zones |-> <<>>]

\* Python's None, where the model holds an integer (an index, a max_hr)
NoneInt == -1

\* a missing value: pd.isna(hr)
NaN == -1

(***************************************************************************)
(* Bounds of the model.                                                    *)
(***************************************************************************)
MaxRuns == 3

(***************************************************************************)
(* Small helpers.                                                          *)
(***************************************************************************)
At(s, i) == s[i + 1]

Min2(a, b) == IF a <= b THEN a ELSE b

Max2(a, b) == IF a >= b THEN a ELSE b

Abs(a) == IF a < 0 THEN -a ELSE a

\* s[from .. to-1] in 0-based indexing, as a Python slice
Slice(s, from, to) == SubSeq(s, from + 1, Min2(to, Len(s)))

\* exact fractions
Rat(n, d) == <<n, d>>

RLe(a, b) == a[1] * b[2] <= b[1] * a[2]

RLt(a, b) == a[1] * b[2] < b[1] * a[2]

RMin(a, b) == IF RLe(a, b) THEN a ELSE b

RMax(a, b) == IF RLe(a, b) THEN b ELSE a

RMul(a, b) == <<a[1] * b[1], a[2] * b[2]>>

RZero == <<0, 1>>

ROne == <<1, 1>>

\* assign_zone with the 50% threshold made inclusive: a variant the zone
\* table must tell apart from the source's
assign_zone_Inclusive(hr, max_hr20) ==
    IF hr = NaN THEN 0
    ELSE IF hr * 2000 <= 50 * max_hr20 THEN 0
    ELSE IF hr * 2000 < 60 * max_hr20 THEN 1
    ELSE IF hr * 2000 < 70 * max_hr20 THEN 2
    ELSE IF hr * 2000 < 80 * max_hr20 THEN 3
    ELSE IF hr * 2000 < 90 * max_hr20 THEN 4
    ELSE 5

\* the port with its 70% threshold drifted to 75%: a variant the comparison
\* with the core must tell apart from the port
svc_assign_zone_Drifted(hr, max_hr20) ==
    IF hr = NaN THEN 0
    ELSE IF hr * 2000 < 50 * max_hr20 THEN 0
    ELSE IF hr * 2000 < 60 * max_hr20 THEN 1
    ELSE IF hr * 2000 < 75 * max_hr20 THEN 2
    ELSE IF hr * 2000 < 80 * max_hr20 THEN 3
    ELSE IF hr * 2000 < 90 * max_hr20 THEN 4
    ELSE 5

(***************************************************************************)
(* calculate_hr_zones.assign_zone (core).  max_hr is given in twentieths   *)
(* of a bpm (max_hr20), which represents both a supplied integer or        *)
(* one-decimal max_hr and the estimate observed_max * 1.05 exactly.        *)
(* pct = hr / max_hr * 100 = hr * 2000 / max_hr20.                         *)
(***************************************************************************)
assign_zone(hr, max_hr20) ==
    IF hr = NaN THEN 0
    ELSE IF hr * 2000 < 50 * max_hr20 THEN 0
    ELSE IF hr * 2000 < 60 * max_hr20 THEN 1
    ELSE IF hr * 2000 < 70 * max_hr20 THEN 2
    ELSE IF hr * 2000 < 80 * max_hr20 THEN 3
    ELSE IF hr * 2000 < 90 * max_hr20 THEN 4
    ELSE 5

(***************************************************************************)
(* DataIngestionService._calculate_hr_zones.assign_zone (the port).        *)
(***************************************************************************)
svc_assign_zone(hr, max_hr20) ==
    IF hr = NaN THEN 0
    ELSE IF hr * 2000 < 50 * max_hr20 THEN 0
    ELSE IF hr * 2000 < 60 * max_hr20 THEN 1
    ELSE IF hr * 2000 < 70 * max_hr20 THEN 2
    ELSE IF hr * 2000 < 80 * max_hr20 THEN 3
    ELSE IF hr * 2000 < 90 * max_hr20 THEN 4
    ELSE 5


(***************************************************************************)
(* The sample series (a pandas DataFrame).                                 *)
(*   cols        the columns present                                       *)
(*   n           the number of rows                                        *)
(*   heart_rate  the heart_rate column (<<>> when the column is absent)    *)
(*   accel       the accelerometer magnitude per row; the generated series *)
(*               have accelerometer_x = accelerometer_y = 0, so the        *)
(*               magnitude sqrt(x^2+y^2+z^2) is |accelerometer_z| exactly  *)
(*   period      seconds between consecutive timestamps                    *)
(***************************************************************************)
HrCols == {"timestamp", "heart_rate"}

DerivedCols == {"time_diff", "cumulative_time"}

AccelCols == {"accelerometer_x", "accelerometer_y", "accelerometer_z"}

Shapes ==
    { [cols |-> HrCols \cup DerivedCols, period |-> 1],
      [cols |-> HrCols \cup DerivedCols, period |-> 2],
      [cols |-> HrCols, period |-> 1],
      [cols |-> {"timestamp"} \cup AccelCols \cup DerivedCols, period |-> 1],
      \* heart rate without timestamps: period is not read
      [cols |-> {"heart_rate"}, period |-> 1] }

EmptyFrame(shape) ==
    [cols |-> shape.cols, n |-> 0, heart_rate |-> <<>>, accel |-> <<>>,
     period |-> shape.period]

\* the runs of heart-rate samples a series is built from: a run is flat at v
\* (step = 0) or a staircase from v that moves by step every third sample;
\* v = NaN is a run of missing values (only leading ones survive
\* preprocess_data's interpolation)
HrRuns ==
    { [v |-> 80,  step |-> 0,  len |-> 12],
      [v |-> 80,  step |-> 0,  len |-> 130],
      [v |-> 120, step |-> 0,  len |-> 40],
      [v |-> 120, step |-> 0,  len |-> 130],
      [v |-> 130, step |-> 0,  len |-> 84],
      [v |-> 110, step |-> 0,  len |-> 1],
      [v |-> 130, step |-> -5, len |-> 12],
      [v |-> NaN, step |-> 0,  len |-> 12] }

\* the runs of accelerometer magnitudes
AccelRuns ==
    { [v |-> 1, step |-> 0, len |-> 12],
      [v |-> 4, step |-> 0, len |-> 1] }

RunSamples(run) ==
    [j \in 1 .. run.len |->
        IF run.v = NaN THEN NaN ELSE run.v + run.step * ((j - 1) \div 3)]

(***************************************************************************)
(* FitnessDataImporter: the collaborator that produces the series.  One    *)
(* step appends one run of samples to the series under construction.       *)
(***************************************************************************)
AppendSamples(run) ==
    /\ pc = "idle"
    /\ nruns < MaxRuns
    /\ IF "heart_rate" \in df.cols
       THEN /\ run \in HrRuns
            /\ run.v = NaN => df.n = 0
            /\ df' = [df EXCEPT !.n = @ + run.len,
                                !.heart_rate = @ \o RunSamples(run)]
       ELSE /\ run \in AccelRuns
            /\ df' = [df EXCEPT !.n = @ + run.len,
                                !.accel = @ \o RunSamples(run)]
    /\ nruns' = nruns + 1
    /\ UNCHANGED <<detectors, results, context, pc, idx, run_results,
                   zone_in, zone_out, scan_out,
                   session_context,
                   event_analysis, performance_analysis>>

(***************************************************************************)
(* Column accessors.                                                       *)
(***************************************************************************)
\* df['heart_rate'].dropna(): the values
hr_values(d) == SelectSeq(d.heart_rate, LAMBDA v : v # NaN)

\* df['heart_rate'].dropna().index: the labels (0-based row numbers)
hr_index(d) ==
    SelectSeq([i \in 1 .. d.n |-> i - 1], LAMBDA i : d.heart_rate[i + 1] # NaN)

\* df['time_diff'].mean(), in seconds: NaN, period, period, ... averages to period
time_diff_mean(d) == d.period

RECURSIVE SumSeq(_, _, _)
\* s[lo] + ... + s[hi] (1-based, inclusive), summed by halves
SumSeq(s, lo, hi) ==
    IF lo > hi THEN 0
    ELSE IF lo = hi THEN s[lo]
    ELSE IF lo + 1 = hi THEN s[lo] + s[hi]
    ELSE SumSeq(s, lo, (lo + hi) \div 2) + SumSeq(s, (lo + hi) \div 2 + 1, hi)

\* max(s[lo], ..., s[hi]) (1-based, inclusive, lo <= hi)
MaxSeq(s, lo, hi) ==
    CHOOSE v \in { s[i] : i \in lo .. hi } : \A i \in lo .. hi : s[i] <= v

\* min(s[lo], ..., s[hi]) (1-based, inclusive, lo <= hi)
MinSeq(s, lo, hi) ==
    CHOOSE v \in { s[i] : i \in lo .. hi } : \A i \in lo .. hi : s[i] >= v

(***************************************************************************)
(* MetricResult, and the outcome of a call of detect: a MetricResult       *)
(* (raised = FALSE) or an exception (raised = TRUE, msg = str(e)).         *)
(***************************************************************************)
MetricResult(name, value, confidence, metadata, data_points, version) ==
    [raised |-> FALSE, metric_name |-> name, value |-> value,
     confidence |-> confidence, metadata |-> metadata,
     data_points |-> data_points, algorithm_version |-> version]

\* an early return that leaves the error tag out: a variant the error
\* contract must tell apart from the source's
ErrorResult_Untagged(name, msg) ==
    [raised |-> FALSE, metric_name |-> name, value |-> <<0, 1>>,
     confidence |-> <<0, 1>>, metadata |-> [note |-> msg],
     data_points |-> <<>>, algorithm_version |-> "1.0"]

\* MetricResult(metric_name, value=0, confidence=0.0, metadata={'error': msg}):
\* data_points and algorithm_version take the dataclass defaults
ErrorResult(name, msg) ==
    MetricResult(name, Rat(0, 1), RZero, [error |-> msg], None, "1.0")

Raise(msg) == [raised |-> TRUE, msg |-> msg]

\* a validation that is content with one of the required fields: a variant
\* the missing-field contract must tell apart from the source's
validate_data_AnyField(required, d) == \E field \in required : field \in d.cols

\* BaseMetricDetector.validate_data
validate_data(required, d) == \A field \in required : field \in d.cols


(***************************************************************************)
(* WarmUpDetector                                                          *)
(***************************************************************************)
\* the loop `for i in range(min(300, len(hr_data)))` with its break: the
\* first i with hr[i] >= baseline + 20 and hr[i] < 160, else None;
\* baseline10 is 10 * baseline_hr
FirstSpike(hr, baseline10, hi) ==
    LET IsSpike(i) == 10 * At(hr, i) >= baseline10 + 200 /\ At(hr, i) < 160
    IN  IF \E i \in 0 .. hi - 1 : IsSpike(i)
        THEN CHOOSE i \in 0 .. hi - 1 :
                 IsSpike(i) /\ \A j \in 0 .. i - 1 : ~IsSpike(j)
        ELSE NoneInt

\* the loop `for i in range(spike + 1, min(spike + 60, len(hr_data)))` with
\* its break: the first i with abs(hr[i] - spike_hr) < 10, else None
FirstStable(hr, spike_hr, lo, hi) ==
    LET Stable(i) == Abs(At(hr, i) - spike_hr) < 10
    IN  IF \E i \in lo .. hi - 1 : Stable(i)
        THEN CHOOSE i \in lo .. hi - 1 :
                 Stable(i) /\ \A j \in lo .. i - 1 : ~Stable(j)
        ELSE NoneInt

\* WarmUpDetector.get_confidence_score; result is the duration in minutes
WarmUp_get_confidence_score(d, result) ==
    LET completeness == Rat(Len(hr_values(d)), d.n)
    IN  IF RLt(RZero, result)
        THEN LET pattern_strength == RMin(RMul(result, Rat(1, 10)), ROne)
             IN  RMin(RMul(completeness, pattern_strength), ROne)
        ELSE RMul(completeness, Rat(1, 2))

\* the index at which the warm-up ends (warmup_end_idx after both clamps)
WarmUp_end_idx(hr) ==
    LET baseline10 == SumSeq(hr, 1, 10)            \* 10 * baseline_hr
        warmup_spike_idx == FirstSpike(hr, baseline10, Min2(300, Len(hr)))
        stab == FirstStable(hr, At(hr, warmup_spike_idx), warmup_spike_idx + 1,
                            Min2(warmup_spike_idx + 60, Len(hr)))
        unclamped ==
            IF warmup_spike_idx = NoneInt THEN 300
            ELSE Min2(IF stab = NoneInt THEN warmup_spike_idx + 60 ELSE stab, 300)
    IN  Max2(unclamped, 120)

\* the rest of WarmUpDetector.detect, from warmup_end_idx on
WarmUp_result(d, hr, warmup_end_int) ==
         LET warmup_duration ==
                 IF "time_diff" \in d.cols
                 THEN Rat(warmup_end_int * time_diff_mean(d), 60)
                 ELSE Rat(warmup_end_int, 60)
             confidence == WarmUp_get_confidence_score(d, warmup_duration)
         IN  \* df['timestamp'].iloc[warmup_end_int]
             IF warmup_end_int >= d.n
             THEN Raise("single positional indexer is out-of-bounds")
             ELSE MetricResult("warm_up_length", warmup_duration, confidence,
                      [start_time |-> 0, end_time |-> warmup_end_int * d.period,
                       baseline_hr |-> Rat(SumSeq(hr, 1, 10), 10),
                       spike_threshold |-> Rat(SumSeq(hr, 1, 10) + 200, 10),
                       algorithm |-> "warm_up_v1.3_spike_stabilization"],
                      <<<<0, warmup_end_int>>>>, "1.0")

WarmUp_detect(d, ctx) ==
    IF ~validate_data({"heart_rate", "timestamp"}, d)
    THEN ErrorResult("warm_up_length", "Missing required data fields")
    ELSE LET hr == hr_values(d) IN
    IF Len(hr) < 10
    THEN ErrorResult("warm_up_length", "Insufficient heart rate data")
    ELSE WarmUp_result(d, hr, WarmUp_end_idx(hr))


(***************************************************************************)
(* CoolDownDetector                                                        *)
(***************************************************************************)
\* CoolDownDetector.get_confidence_score; result is the duration in minutes
CoolDown_get_confidence_score(d, result) ==
    LET hr == hr_values(d) IN
    IF RLt(RZero, result)
    THEN LET hr_decrease == At(hr, 0) - At(hr, Len(hr) - 1)
             decrease_strength == RMin(Rat(hr_decrease, 30), ROne)
             completeness == Rat(Len(hr), d.n)
         IN  RMin(RMul(completeness, decrease_strength), ROne)
    ELSE RZero

\* x.rolling(window=w, center=True): the window of result i (0-based) is
\* x[i + offset - w + 1 .. i + offset] with offset = (w - 1) // 2; the result
\* is NaN unless the whole window lies in the series
RollValid(len, w, i) ==
    /\ i + ((w - 1) \div 2) - w + 1 >= 0
    /\ i + ((w - 1) \div 2) <= len - 1

\* w * x.rolling(window=w, center=True).mean()[i], for a valid i
RollSum(x, w, i) ==
    SumSeq(x, i + ((w - 1) \div 2) - w + 2, i + ((w - 1) \div 2) + 1)

\* the count with `<= 0` for `< 0`: a variant the flat series must tell
\* apart from the source's
DecreasingCount_NotRising(x, w) ==
    Cardinality({ i \in 1 .. Len(x) - 1 :
                    /\ RollValid(Len(x), w, i)
                    /\ RollValid(Len(x), w, i - 1)
                    /\ RollSum(x, w, i) <= RollSum(x, w, i - 1) })

\* (rolling_mean.diff() < 0).sum(): the number of positions whose rolling
\* mean is below the one before (NaN differences count as not decreasing)
DecreasingCount(x, w) ==
    Cardinality({ i \in 1 .. Len(x) - 1 :
                    /\ RollValid(Len(x), w, i)
                    /\ RollValid(Len(x), w, i - 1)
                    /\ RollSum(x, w, i) < RollSum(x, w, i - 1) })

\* decreasing_hr.sum() > len(decreasing_hr) * 0.6
CoolDown_sustained(cooldown_data) ==
    LET window_size == Min2(10, Len(cooldown_data) \div 3)
    IN  5 * DecreasingCount(cooldown_data, window_size) > 3 * Len(cooldown_data)

CoolDown_detect(d, ctx) ==
    IF ~validate_data({"heart_rate", "timestamp"}, d)
    THEN ErrorResult("cool_down_length", "Missing required data fields")
    ELSE LET hr == hr_values(d) IN
    IF Len(hr) < 20
    THEN ErrorResult("cool_down_length", "Insufficient heart rate data")
    ELSE LET cooldown_start_idx == (Len(hr) * 4) \div 5        \* int(len * 0.8)
             cooldown_data == Slice(hr, cooldown_start_idx, Len(hr))
         IN
    IF Len(cooldown_data) < 10
    THEN ErrorResult("cool_down_length", "Insufficient data for cool-down detection")
    ELSE IF CoolDown_sustained(cooldown_data)
    THEN LET labels == hr_index(d)
             cooldown_start == At(labels, cooldown_start_idx)
             cooldown_end == At(labels, Len(hr) - 1)
             \* with time_diff: (end - start) * mean / 60; without: the
             \* difference of the two timestamps, the same number
             cooldown_duration ==
                 IF "time_diff" \in d.cols
                 THEN Rat((cooldown_end - cooldown_start) * time_diff_mean(d), 60)
                 ELSE Rat((cooldown_end - cooldown_start) * d.period, 60)
             confidence == CoolDown_get_confidence_score(d, cooldown_duration)
         IN  MetricResult("cool_down_length", cooldown_duration, confidence,
                 [start_time |-> cooldown_start, end_time |-> cooldown_end,
                  avg_heart_rate |->
                      Rat(SumSeq(cooldown_data, 1, Len(cooldown_data)),
                          Len(cooldown_data)),
                  hr_decrease |-> At(hr, 0) - At(hr, Len(hr) - 1),
                  algorithm |-> "hr_decrease_analysis"],
                 <<<<cooldown_start, cooldown_end>>>>, "1.0")
    ELSE ErrorResult("cool_down_length", "No cool-down pattern detected")

(***************************************************************************)
(* GameDetector                                                            *)
(***************************************************************************)
\* the k-th smallest value of hr (k 0-based)
OrderStat(hr, k) ==
    LET CountLE(v) == Len(SelectSeq(hr, LAMBDA x : x <= v))
        vals == { hr[i] : i \in 1 .. Len(hr) }
    IN  CHOOSE v \in vals :
            /\ CountLE(v) > k
            /\ \A u \in vals : u < v => CountLE(u) <= k

\* 5 * hr_data.quantile(0.2), linear interpolation between order statistics:
\* position 0.2 * (len - 1) = lo + r/5
Quantile20x5(hr) ==
    LET lo == (Len(hr) - 1) \div 5
        r == (Len(hr) - 1) % 5
        a == OrderStat(hr, lo)
        b == IF r = 0 THEN a ELSE OrderStat(hr, lo + 1)
    IN  5 * a + r * (b - a)

\* 500 * rest_threshold, rest_threshold = baseline + (max - baseline) * 0.15
RestThreshold500(hr) ==
    85 * Quantile20x5(hr) + 75 * MaxSeq(hr, 1, Len(hr))

\* the loop variables before the first iteration of the rest-period loop: the
\* position i (0-based), current_start and rest_periods
RestScanStart == [i |-> 0, current_start |-> NoneInt, rest_periods |-> <<>>]

\* one iteration of the loop over enumerate(below_threshold)
RestScanStep(hr, thr500, st) ==
    IF 500 * At(hr, st.i) < thr500 /\ st.current_start = NoneInt
    THEN [st EXCEPT !.i = @ + 1, !.current_start = st.i]
    ELSE IF ~(500 * At(hr, st.i) < thr500) /\ st.current_start # NoneInt
    THEN [i |-> st.i + 1,
          current_start |-> NoneInt,
          rest_periods |->
              IF st.i - st.current_start >= 3
              THEN Append(st.rest_periods, <<st.current_start, st.i>>)
              ELSE st.rest_periods]
    ELSE [st EXCEPT !.i = @ + 1]

RECURSIVE RestScan(_, _, _, _)
\* the iterations from position st.i up to hi - 1, the first half of them
\* and then the rest
RestScan(hr, thr500, hi, st) ==
    IF st.i >= hi THEN st
    ELSE IF st.i + 1 = hi THEN RestScanStep(hr, thr500, st)
    ELSE RestScan(hr, thr500, hi, RestScan(hr, thr500, (st.i + hi) \div 2, st))

\* rest_periods of GameDetector.detect
Game_rest_periods(hr) ==
    RestScan(hr, RestThreshold500(hr), Len(hr), RestScanStart).rest_periods

\* the duration of a rest period in seconds (60 * duration): with time_diff,
\* (end - start) * mean; without, the difference of the two timestamps
RestSeconds(d, period) ==
    IF "time_diff" \in d.cols
    THEN (period[2] - period[1]) * time_diff_mean(d)
    ELSE (period[2] - period[1]) * d.period

\* GameDetector.get_confidence_score; result is the number of games
Game_get_confidence_score(d, result) ==
    IF result > 0
    THEN LET completeness == Rat(Len(hr_values(d)), d.n)
             pattern_clarity == RMin(Rat(result, 5), ROne)
         IN  RMin(RMul(completeness, pattern_clarity), ROne)
    ELSE RZero

\* the game count without the game in progress: a variant the game
\* invariant must tell apart from the source's
Game_num_games_BreaksOnly(game_breaks) == Len(game_breaks)

\* num_games = len(game_breaks) + 1
Game_num_games(game_breaks) == Len(game_breaks) + 1

\* the rest of GameDetector.detect, from rest_periods on
Game_result(d, rest_periods) ==
    IF rest_periods = <<>>
    THEN ErrorResult("number_of_games", "No rest periods detected")
    ELSE LET game_breaks ==
                 SelectSeq(rest_periods, LAMBDA p : RestSeconds(d, p) > 120)
             rally_breaks ==
                 SelectSeq(rest_periods, LAMBDA p : RestSeconds(d, p) < 30)
             num_games == Game_num_games(game_breaks)
             confidence == Game_get_confidence_score(d, num_games)
         IN  MetricResult("number_of_games", Rat(num_games, 1), confidence,
                 [game_breaks |-> Len(game_breaks),
                  rally_breaks |-> Len(rally_breaks),
                  algorithm |-> "rest_period_analysis"],
                 None, "1.0")

\* GameDetector.detect with its minimum of 50 samples mistyped as 5: a
\* variant the minimum-sample contract must tell apart from the source's
Game_detect_Min5(d, ctx) ==
    IF ~validate_data({"heart_rate", "timestamp"}, d)
    THEN ErrorResult("number_of_games", "Missing required data fields")
    ELSE LET hr == hr_values(d) IN
    IF Len(hr) < 5
    THEN ErrorResult("number_of_games", "Insufficient heart rate data")
    ELSE Game_result(d, Game_rest_periods(hr))

Game_detect(d, ctx) ==
    IF ~validate_data({"heart_rate", "timestamp"}, d)
    THEN ErrorResult("number_of_games", "Missing required data fields")
    ELSE LET hr == hr_values(d) IN
    IF Len(hr) < 50
    THEN ErrorResult("number_of_games", "Insufficient heart rate data")
    ELSE Game_result(d, Game_rest_periods(hr))


(***************************************************************************)
(* calculate_hr_zones                                                      *)
(***************************************************************************)
\* the max_hr used, in twentieths of a bpm: the supplied one, else
\* observed_max * 1.05, else 200 when there is no heart rate at all
zones_max_hr20(d, max_hr20) ==
    IF max_hr20 # NoneInt THEN max_hr20
    ELSE LET hr == hr_values(d) IN
         IF Len(hr) > 0 THEN 21 * MaxSeq(hr, 1, Len(hr)) ELSE 200 * 20

\* calculate_hr_zones(df, max_hr): the pair (df with the hr_zone column,
\* max_hr).  Without a heart_rate column the frame comes back as it is, with
\* `max_hr or 200`.
calculate_hr_zones(d, max_hr20) ==
    IF "heart_rate" \notin d.cols
    THEN [has_hr_zone |-> FALSE, hr_zone |-> <<>>,
          max_hr20 |-> IF max_hr20 = NoneInt \/ max_hr20 = 0 THEN 200 * 20
                       ELSE max_hr20]
    ELSE LET m == zones_max_hr20(d, max_hr20)
         IN  [has_hr_zone |-> TRUE,
              hr_zone |-> [i \in 1 .. d.n |-> assign_zone(d.heart_rate[i], m)],
              max_hr20 |-> m]

\* DataIngestionService._calculate_hr_zones(df, max_hr): the hr_zone column
\* it adds to df
svc_calculate_hr_zones(d, max_hr20) ==
    [i \in 1 .. d.n |-> svc_assign_zone(d.heart_rate[i], max_hr20)]

(***************************************************************************)
(* RallyDetector                                                           *)
(***************************************************************************)
drop_threshold == 1

min_sustained_duration == 1

\* 10 * hr_smooth: the centred rolling mean of window 10, its leading NaNs
\* filled from the first valid value (bfill), its trailing ones from the
\* last (ffill)
hr_smooth10(hr) ==
    [k \in 1 .. Len(hr) |->
        RollSum(hr, 10, Min2(Max2(k - 1, 5), Len(hr) - 5))] \o <<>>

\* drop_amount >= drop_threshold at index i, on the tenfold smoothed series:
\* recent_max = max(hr_values[lookback:i]) is at least that much above
\* hr_values[i] exactly when some value of hr_values[lookback:i] is
InDropAt(smooth10, i) ==
    LET lookback == Max2(0, i - 15)
    IN  \E j \in lookback .. i - 1 :
            At(smooth10, j) - At(smooth10, i) >= 10 * drop_threshold

\* the boundary placed where the drop ends, not where it starts: a variant
\* the positions of the boundaries must tell apart from the source's
BoundaryAppend_AtEnd(rally_boundaries, drop_start_idx, i) ==
    IF /\ i - drop_start_idx >= min_sustained_duration
       /\ \/ Len(rally_boundaries) = 0
          \/ drop_start_idx - rally_boundaries[Len(rally_boundaries)] >= 3
    THEN Append(rally_boundaries, i)
    ELSE rally_boundaries

\* the boundary a finished drop adds: `if i - drop_start_idx >=
\* min_sustained_duration` and the boundary is not within 3 of the last one
BoundaryAppend(rally_boundaries, drop_start_idx, i) ==
    IF /\ i - drop_start_idx >= min_sustained_duration
       /\ \/ Len(rally_boundaries) = 0
          \/ drop_start_idx - rally_boundaries[Len(rally_boundaries)] >= 3
    THEN Append(rally_boundaries, drop_start_idx)
    ELSE rally_boundaries

\* the loop variables before the first iteration of the boundary loop: the
\* index i, drop_start_idx (None when not in_drop) and rally_boundaries
BoundaryScanStart == [i |-> 10, drop_start_idx |-> NoneInt, rally_boundaries |-> <<>>]

\* one iteration of the loop `for i in range(10, len(hr_values) - 10)`
BoundaryScanStep(smooth10, st) ==
    IF InDropAt(smooth10, st.i)
    THEN IF st.drop_start_idx = NoneInt
         THEN [st EXCEPT !.i = @ + 1, !.drop_start_idx = st.i]
         ELSE [st EXCEPT !.i = @ + 1]
    ELSE IF st.drop_start_idx # NoneInt
    THEN [i |-> st.i + 1,
          drop_start_idx |-> NoneInt,
          rally_boundaries |->
              BoundaryAppend(st.rally_boundaries, st.drop_start_idx, st.i)]
    ELSE [st EXCEPT !.i = @ + 1]

RECURSIVE BoundaryScan(_, _, _)
\* the iterations from index st.i up to hi - 1, the first half of them and
\* then the rest
BoundaryScan(smooth10, hi, st) ==
    IF st.i >= hi THEN st
    ELSE IF st.i + 1 = hi THEN BoundaryScanStep(smooth10, st)
    ELSE BoundaryScan(smooth10, hi, BoundaryScan(smooth10, (st.i + hi) \div 2, st))

\* rally_boundaries after the scan (already sorted and without duplicates)
Rally_boundaries(hr) ==
    BoundaryScan(hr_smooth10(hr), Len(hr) - 10, BoundaryScanStart).rally_boundaries

\* the duration filter with the upper bound of the last filter (300): a
\* variant the segment bounds must tell apart from the source's
Rally_keep_UpTo300(start_idx, end_idx) ==
    /\ 5 <= end_idx - start_idx
    /\ end_idx - start_idx <= 300

\* the duration filter of the segment loop: 5 <= duration <= 120
Rally_keep(start_idx, end_idx) ==
    /\ 5 <= end_idx - start_idx
    /\ end_idx - start_idx <= 120

\* filtered_rallies: the spans between consecutive boundaries that pass the
\* three duration filters (5..120, then >= 2, then 5..300)
Rally_segments(hr) ==
    LET warmup_samples == Min2(300, Len(hr) \div 4)
        boundaries == <<warmup_samples>> \o Rally_boundaries(hr) \o <<Len(hr)>>
        spans == [i \in 1 .. Len(boundaries) - 1 |->
                     <<boundaries[i], boundaries[i + 1]>>]
        initial_rallies == SelectSeq(spans, LAMBDA p : Rally_keep(p[1], p[2]))
        rally_periods == SelectSeq(initial_rallies, LAMBDA p : p[2] - p[1] >= 2)
    IN  SelectSeq(rally_periods,
                  LAMBDA p : 5 <= p[2] - p[1] /\ p[2] - p[1] <= 300)

\* RallyDetector._calculate_intensity on hr[start_idx:end_idx]
Rally_calculate_intensity(hr, start_idx, end_idx) ==
    IF end_idx <= start_idx THEN RZero
    ELSE LET len == end_idx - start_idx
             sum == SumSeq(hr, start_idx + 1, end_idx)
             mx == MaxSeq(hr, start_idx + 1, end_idx)
             mn == MinSeq(hr, start_idx + 1, end_idx)
         IN  IF mx > mn
             THEN RMin(Rat(sum - len * mn, len * (mx - mn)), ROne)
             ELSE RZero

\* one entry of metadata['rallies']; segment is the (start_idx, end_idx) pair
\* of filtered_rallies the entry is built from
Rally_info(d, hr, labels, zones, seg) ==
    LET start_idx == seg[1]
        end_idx == seg[2]
        actual_start_idx == At(labels, start_idx)
        actual_end_idx == IF end_idx < Len(hr) THEN At(labels, end_idx - 1)
                          ELSE At(labels, Len(hr) - 1)
    IN  [segment |-> seg,
         start_time |-> actual_start_idx,
         end_time |-> actual_end_idx,
         duration_minutes |->
             Rat((actual_end_idx - actual_start_idx) * time_diff_mean(d), 60),
         avg_heart_rate |->
             Rat(SumSeq(hr, start_idx + 1, end_idx), end_idx - start_idx),
         max_heart_rate |-> MaxSeq(hr, start_idx + 1, end_idx),
         avg_zone |->
             Rat(SumSeq(zones, start_idx + 1, Min2(end_idx, Len(zones))),
                 Min2(end_idx, Len(zones)) - start_idx),
         intensity |-> Rally_calculate_intensity(hr, start_idx, end_idx)]

\* RallyDetector.get_confidence_score; result is the number of rallies
Rally_get_confidence_score(d, result) ==
    LET completeness == Rat(Len(hr_values(d)), d.n) IN
    IF result > 0
    THEN LET \* expected_rallies = session_duration * 1.2, with session_duration
             \* cumulative_time.iloc[-1] / 60 = (n - 1) * period / 60, else 81
             expected == IF "cumulative_time" \in d.cols
                         THEN Rat((d.n - 1) * d.period, 50)
                         ELSE Rat(972, 10)
             rally_ratio == IF expected[1] > 0
                            THEN Rat(result * expected[2], expected[1])
                            ELSE RZero
             in_band == /\ RLe(Rat(1, 2), rally_ratio)
                        /\ RLe(rally_ratio, Rat(2, 1))
             \* 1.0 - abs(rally_ratio - 1.0) * 0.3
             penal == Rat(10 * rally_ratio[2]
                            - 3 * Abs(rally_ratio[1] - rally_ratio[2]),
                          10 * rally_ratio[2])
             rally_confidence == IF in_band THEN ROne
                                 ELSE RMax(Rat(4, 10), penal)
         IN  RMin(RMul(completeness, rally_confidence), ROne)
    ELSE RMul(completeness, Rat(3, 10))

\* the MetricResult RallyDetector.detect returns for the rallies converted
Rally_result(d, df_with_zones, rallies) ==
    MetricResult("number_of_rallies", Rat(Len(rallies), 1),
        Rally_get_confidence_score(d, Len(rallies)),
        [rallies |-> rallies,
         algorithm |-> "drop_based_v3.2_1bpm_1s_sustained",
         \* max_hr is overwritten by each rally's maximum heart rate
         max_hr_used |->
             IF rallies = <<>> THEN df_with_zones.max_hr20
             ELSE 20 * rallies[Len(rallies)].max_heart_rate],
        None, "1.0")

\* the conversion of filtered_rallies to rally information, and the result
Rally_convert(d, hr, df_with_zones, filtered_rallies) ==
    \* df['time_diff'] is read for the first rally converted
    IF filtered_rallies # <<>> /\ "time_diff" \notin d.cols
    THEN Raise("'time_diff'")
    ELSE Rally_result(d, df_with_zones,
             [k \in 1 .. Len(filtered_rallies) |->
                 Rally_info(d, hr, hr_index(d), df_with_zones.hr_zone,
                            filtered_rallies[k])])

Rally_detect(d, ctx) ==
    IF ~validate_data({"heart_rate", "timestamp"}, d)
    THEN ErrorResult("number_of_rallies", "Missing required data fields")
    ELSE LET hr == hr_values(d) IN
    IF Len(hr) < 10
    THEN ErrorResult("number_of_rallies", "Insufficient heart rate data")
    ELSE LET df_with_zones == calculate_hr_zones(d, NoneInt) IN
    IF ~df_with_zones.has_hr_zone
    THEN ErrorResult("number_of_rallies", "Failed to calculate HR zones")
    ELSE Rally_convert(d, hr, df_with_zones, Rally_segments(hr))


(***************************************************************************)
(* The context argument of detect.  The detectors read it only through     *)
(* context.get(key, default) guarded by `if context`, so a context is held *)
(* as the four values those reads yield: an absent key (and a None or      *)
(* empty context) yields the default.                                      *)
(***************************************************************************)
NoContext ==
    [rallies |-> <<>>, games |-> <<>>, warmup_result |-> None,
     cooldown_result |-> None]

\* a context in which the caller supplies earlier outputs
CallerContext ==
    [rallies |-> << [duration_minutes |-> Rat(1, 2)],
                    [duration_minutes |-> Rat(3, 1)] >>,
     games |-> << "game_1", "game_2" >>,
     warmup_result |->
         MetricResult("warm_up_length", Rat(2, 1), Rat(1, 5), [algorithm |-> "caller"],
                      <<<<0, 120>>>>, "1.0"),
     cooldown_result |-> None]

Contexts == {NoContext, CallerContext}

(***************************************************************************)
(* SessionDurationDetector                                                 *)
(***************************************************************************)
SessionDuration_detect(d, ctx) ==
    IF ~validate_data({"timestamp"}, d)
    THEN ErrorResult("total_session_duration", "Missing timestamp data")
    ELSE IF d.n < 2
    THEN ErrorResult("total_session_duration", "Insufficient data points")
    ELSE MetricResult("total_session_duration", Rat((d.n - 1) * d.period, 60), ROne,
             [start_time |-> 0, end_time |-> (d.n - 1) * d.period,
              data_points |-> d.n, algorithm |-> "timestamp_difference"],
             None, "1.0")

(***************************************************************************)
(* PlayingTimeDetector                                                     *)
(***************************************************************************)
\* the number of rows whose hr_zone is in zs
ZonePoints(zones, zs) ==
    Cardinality({ i \in 1 .. Len(zones) : zones[i] \in zs })

\* 60 / samples_per_minute, the seconds per sample: the mean time_diff (or
\* the mean timestamp difference), 60 when the series has a single row
seconds_per_sample(d) == IF d.n >= 2 THEN d.period ELSE 60

\* max(0.3, 1.0 - abs(ratio - ideal) / ideal) for ratio = rn / rd and
\* ideal = in / id
RatioPenalised(rn, rd, in, id) ==
    RMax(Rat(3, 10), Rat(in * rd - Abs(rn * id - in * rd), in * rd))

\* PlayingTimeDetector.get_confidence_score; result is total_playing_time in
\* minutes, high_zone_points * seconds_per_sample / 60
PlayingTime_get_confidence_score(d, result) ==
    LET completeness == Rat(Len(hr_values(d)), d.n)
        \* session_duration = cumulative_time.iloc[-1] / 60 (NaN for one row)
        session_duration == IF "cumulative_time" \in d.cols /\ d.n >= 2
                            THEN Rat((d.n - 1) * d.period, 60)
                            ELSE RZero
    IN  IF RLt(RZero, result) /\ RLt(RZero, session_duration)
        THEN LET rn == result[1] * session_duration[2]
                 rd == result[2] * session_duration[1]
             IN  IF RLe(Rat(1, 5), Rat(rn, rd)) /\ RLe(Rat(rn, rd), Rat(3, 5))
                 THEN completeness
                 ELSE RMul(completeness, RatioPenalised(rn, rd, 2, 5))
        ELSE RMul(completeness, Rat(3, 10))

PlayingTime_detect(d, ctx) ==
    IF ~validate_data({"heart_rate", "timestamp"}, d)
    THEN ErrorResult("total_playing_time", "Missing required data fields")
    ELSE LET df_with_zones == calculate_hr_zones(d, NoneInt) IN
    IF ~df_with_zones.has_hr_zone
    THEN ErrorResult("total_playing_time", "Failed to calculate HR zones")
    ELSE LET zones == df_with_zones.hr_zone
             high_zone_points == ZonePoints(zones, {3, 4, 5})
             total_playing_time ==
                 Rat(high_zone_points * seconds_per_sample(d), 60)
             confidence == PlayingTime_get_confidence_score(d, total_playing_time)
         IN  MetricResult("total_playing_time", total_playing_time, confidence,
                 [algorithm |-> "hr_zone_based_v2.0",
                  max_hr_used |-> df_with_zones.max_hr20,
                  high_zone_points |-> high_zone_points,
                  total_points |-> d.n],
                 None, "1.0")

(***************************************************************************)
(* LongestRallyDetector                                                    *)
(***************************************************************************)
\* LongestRallyDetector.get_confidence_score; result is minutes
LongestRally_get_confidence_score(d, result) ==
    LET completeness == Rat(Len(hr_values(d)), d.n) IN
    IF RLt(RZero, result)
    THEN LET reasonableness == IF RLe(result, Rat(2, 1)) THEN ROne ELSE Rat(1, 2)
         IN  RMin(RMul(completeness, reasonableness), ROne)
    ELSE RMul(completeness, Rat(1, 2))

\* max(rallies, key=duration_minutes): the first rally of maximal duration
MaxRally(rallies) ==
    rallies[CHOOSE k \in 1 .. Len(rallies) :
                /\ \A j \in 1 .. Len(rallies) :
                       RLe(rallies[j].duration_minutes, rallies[k].duration_minutes)
                /\ \A j \in 1 .. k - 1 :
                       RLt(rallies[j].duration_minutes, rallies[k].duration_minutes)]

\* rally_result.metadata.get('rallies', [])
MetadataRallies(rally_result) ==
    IF "rallies" \in DOMAIN rally_result.metadata
    THEN rally_result.metadata.rallies
    ELSE <<>>

\* the rest of LongestRallyDetector.detect; rally_result is the outcome of
\* the fallback RallyDetector().detect(df, context), run when the context
\* holds no rallies
LongestRally_from(d, ctx, rally_result) ==
    \* the fallback detection raises through
    IF ctx.rallies = <<>> /\ rally_result.raised
    THEN rally_result
    ELSE LET rallies == IF ctx.rallies # <<>> THEN ctx.rallies
                        ELSE MetadataRallies(rally_result)
         IN
    IF rallies = <<>>
    THEN ErrorResult("longest_rally_length", "No rallies detected")
    ELSE LET filtered_rallies ==
                 SelectSeq(rallies, LAMBDA r : RLe(r.duration_minutes, Rat(2, 1)))
         IN
    IF filtered_rallies = <<>>
    THEN MetricResult("longest_rally_length", Rat(0, 1), RZero,
             [error |-> "No rallies under 2 minute cap",
              total_rallies |-> Len(rallies)],
             None, "1.0")
    ELSE LET longest_rally == MaxRally(filtered_rallies)
             longest_rally_duration == longest_rally.duration_minutes
             confidence == LongestRally_get_confidence_score(d, longest_rally_duration)
         IN  MetricResult("longest_rally_length", longest_rally_duration, confidence,
                 [longest_rally |-> longest_rally,
                  total_rallies |-> Len(rallies),
                  filtered_rallies |-> Len(filtered_rallies),
                  algorithm |-> "max_rally_duration_capped_at_120s"],
                 None, "1.0")

LongestRally_detect(d, ctx) ==
    IF ~validate_data({"heart_rate", "timestamp"}, d)
    THEN ErrorResult("longest_rally_length", "Missing required data fields")
    ELSE LongestRally_from(d, ctx, Rally_detect(d, ctx))

(***************************************************************************)
(* RalliesPerGameDetector                                                  *)
(***************************************************************************)
\* RalliesPerGameDetector.get_confidence_score; result is rallies per game
RalliesPerGame_get_confidence_score(d, result) ==
    LET completeness == Rat(Len(hr_values(d)), d.n) IN
    IF RLt(RZero, result)
    THEN LET \* max(0.3, 1.0 - abs(result - 25) * 0.02)
             reasonableness ==
                 IF RLe(Rat(5, 1), result) /\ RLe(result, Rat(50, 1)) THEN ROne
                 ELSE RMax(Rat(3, 10),
                           Rat(50 * result[2] - Abs(result[1] - 25 * result[2]),
                               50 * result[2]))
         IN  RMin(RMul(completeness, reasonableness), ROne)
    ELSE RMul(completeness, Rat(1, 2))

\* the rest of RalliesPerGameDetector.detect; rally_result and game_result
\* are the outcomes of the fallback RallyDetector().detect(df, context) and
\* GameDetector().detect(df, context), run when the context holds no rallies
\* and no games
RalliesPerGame_from(d, ctx, rally_result, game_result) ==
    \* the fallback detection raises through
    IF ctx.rallies = <<>> /\ rally_result.raised
    THEN rally_result
    ELSE LET rallies == IF ctx.rallies # <<>> THEN ctx.rallies
                        ELSE MetadataRallies(rally_result)
             \* game_result.value of the fallback, or len(games)
             num_games == IF ctx.games = <<>> THEN game_result.value[1]
                          ELSE Len(ctx.games)
         IN
    IF num_games = 0
    THEN ErrorResult("rallies_per_game", "No games detected")
    ELSE LET rallies_per_game == Rat(Len(rallies), num_games)
             confidence == RalliesPerGame_get_confidence_score(d, rallies_per_game)
         IN  MetricResult("rallies_per_game", rallies_per_game, confidence,
                 [total_rallies |-> Len(rallies),
                  total_games |-> num_games,
                  algorithm |-> "rallies_divided_by_games"],
                 None, "1.0")

RalliesPerGame_detect(d, ctx) ==
    IF ~validate_data({"heart_rate", "timestamp"}, d)
    THEN ErrorResult("rallies_per_game", "Missing required data fields")
    ELSE RalliesPerGame_from(d, ctx, Rally_detect(d, ctx), Game_detect(d, ctx))

(***************************************************************************)
(* RestBetweenGamesDetector                                                *)
(***************************************************************************)
\* RestBetweenGamesDetector.get_confidence_score; result is minutes
RestBetweenGames_get_confidence_score(d, result) ==
    LET completeness == Rat(Len(hr_values(d)), d.n) IN
    IF RLt(RZero, result)
    THEN LET \* max(0.3, 1.0 - abs(result - 3.0) * 0.1)
             reasonableness ==
                 IF RLe(ROne, result) /\ RLe(result, Rat(5, 1)) THEN ROne
                 ELSE RMax(Rat(3, 10),
                           Rat(10 * result[2] - Abs(result[1] - 3 * result[2]),
                               10 * result[2]))
         IN  RMin(RMul(completeness, reasonableness), ROne)
    ELSE RMul(completeness, Rat(1, 2))

\* the rest-period scan is the one of GameDetector, written out a second
\* time in the source
RestBetweenGames_rest_periods(hr) ==
    RestScan(hr, RestThreshold500(hr), Len(hr), RestScanStart).rest_periods

\* the rest of the detector with game breaks from 1 minute on: a variant the
\* agreement with GameDetector must tell apart from the source's
RestBetweenGames_result_FromOneMinute(d, rest_periods) ==
    IF rest_periods = <<>>
    THEN ErrorResult("rest_between_games", "No rest periods detected")
    ELSE LET game_breaks ==
                 SelectSeq(rest_periods, LAMBDA p : RestSeconds(d, p) > 60)
         IN
    IF game_breaks = <<>>
    THEN ErrorResult("rest_between_games", "No game breaks detected")
    ELSE LET seconds == [k \in 1 .. Len(game_breaks) |-> RestSeconds(d, game_breaks[k])]
             avg_rest_between_games ==
                 Rat(SumSeq(seconds, 1, Len(seconds)), 60 * Len(seconds))
             confidence ==
                 RestBetweenGames_get_confidence_score(d, avg_rest_between_games)
         IN  MetricResult("rest_between_games", avg_rest_between_games, confidence,
                 [game_breaks |-> Len(game_breaks),
                  min_game_break |-> Rat(MinSeq(seconds, 1, Len(seconds)), 60),
                  max_game_break |-> Rat(MaxSeq(seconds, 1, Len(seconds)), 60),
                  algorithm |-> "game_break_analysis"],
                 None, "1.0")

\* the rest of RestBetweenGamesDetector.detect, from rest_periods on
RestBetweenGames_result(d, rest_periods) ==
    IF rest_periods = <<>>
    THEN ErrorResult("rest_between_games", "No rest periods detected")
    ELSE LET game_breaks ==
                 SelectSeq(rest_periods, LAMBDA p : RestSeconds(d, p) > 120)
         IN
    IF game_breaks = <<>>
    THEN ErrorResult("rest_between_games", "No game breaks detected")
    ELSE LET seconds == [k \in 1 .. Len(game_breaks) |-> RestSeconds(d, game_breaks[k])]
             avg_rest_between_games ==
                 Rat(SumSeq(seconds, 1, Len(seconds)), 60 * Len(seconds))
             confidence ==
                 RestBetweenGames_get_confidence_score(d, avg_rest_between_games)
         IN  MetricResult("rest_between_games", avg_rest_between_games, confidence,
                 [game_breaks |-> Len(game_breaks),
                  min_game_break |-> Rat(MinSeq(seconds, 1, Len(seconds)), 60),
                  max_game_break |-> Rat(MaxSeq(seconds, 1, Len(seconds)), 60),
                  algorithm |-> "game_break_analysis"],
                 None, "1.0")

RestBetweenGames_detect(d, ctx) ==
    IF ~validate_data({"heart_rate", "timestamp"}, d)
    THEN ErrorResult("rest_between_games", "Missing required data fields")
    ELSE LET hr == hr_values(d) IN
    IF Len(hr) < 50
    THEN ErrorResult("rest_between_games", "Insufficient heart rate data")
    ELSE RestBetweenGames_result(d, RestBetweenGames_rest_periods(hr))

(***************************************************************************)
(* AccelerometerShotDetector                                               *)
(***************************************************************************)
\* v >= accel_magnitude.mean() + accel_magnitude.std() * 2 (sample standard
\* deviation); with n rows, sum S and sum of squares Q this is
\* v*n - S >= 0 and (v*n - S)^2 * (n-1) >= 4 * n * (n*Q - S^2).  The standard
\* deviation of a single row is NaN and no value passes.
AboveThreshold(x, v) ==
    LET n == Len(x)
        S == SumSeq(x, 1, n)
        Q == SumSeq([i \in 1 .. n |-> x[i] * x[i]], 1, n)
    IN  /\ n >= 2
        /\ v * n - S >= 0
        /\ (v * n - S) * (v * n - S) * (n - 1) >= 4 * n * (n * Q - S * S)

\* the local maxima of scipy.signal.find_peaks (0-based): the midpoint of
\* every plateau that is higher than both its neighbours
LocalMaxima(x) ==
    { (l + r) \div 2 - 1 : <<l, r>> \in
        { p \in (2 .. Len(x) - 1) \X (2 .. Len(x) - 1) :
            /\ p[1] <= p[2]
            /\ \A i \in p[1] .. p[2] : x[i] = x[p[1]]
            /\ x[p[1] - 1] < x[p[1]]
            /\ x[p[2] + 1] < x[p[2]] } }

RECURSIVE SelectByDistance(_, _, _, _)
\* find_peaks' distance condition: going from the highest peak down (the
\* later one first among equals), a kept peak removes the peaks closer
\* than distance to it
SelectByDistance(x, candidates, kept, distance) ==
    IF candidates = {} THEN kept
    ELSE LET best == CHOOSE p \in candidates :
                         \A q \in candidates :
                             \/ At(x, q) < At(x, p)
                             \/ At(x, q) = At(x, p) /\ q <= p
         IN  SelectByDistance(x,
                 { q \in candidates : Abs(q - best) >= distance },
                 kept \cup {best}, distance)

\* find_peaks(accel_magnitude, height=threshold, distance=10)
find_peaks(x) ==
    SelectByDistance(x,
        { p \in LocalMaxima(x) : AboveThreshold(x, At(x, p)) }, {}, 10)

\* AccelerometerShotDetector.get_confidence_score; result is the shot count
AccelerometerShot_get_confidence_score(d, result) ==
    LET completeness == Rat(Cardinality(AccelCols \cap d.cols), 3) IN
    IF result > 0
    THEN LET \* max(0.3, 1.0 - abs(result - 200) * 0.001)
             reasonableness ==
                 IF 50 <= result /\ result <= 500 THEN ROne
                 ELSE RMax(Rat(3, 10), Rat(1000 - Abs(result - 200), 1000))
         IN  RMin(RMul(completeness, reasonableness), ROne)
    ELSE RMul(completeness, Rat(1, 2))

AccelerometerShot_detect(d, ctx) ==
    IF ~validate_data(AccelCols \cup {"timestamp"}, d)
    THEN ErrorResult("shots_detected", "Missing accelerometer data")
    ELSE LET peaks == find_peaks(d.accel)
             confidence == AccelerometerShot_get_confidence_score(d, Cardinality(peaks))
         IN  MetricResult("shots_detected", Rat(Cardinality(peaks), 1), confidence,
                 [shots |-> peaks,
                  max_acceleration |-> MaxSeq(d.accel, 1, d.n),
                  algorithm |-> "accelerometer_peak_detection"],
                 None, "1.0")

(***************************************************************************)
(* RestTimeDetector                                                        *)
(***************************************************************************)
\* end_idx - start_idx of result.data_points[0], 0 when the result or its
\* data_points is missing
ContextPoints(result) ==
    IF result = None THEN 0
    ELSE IF result.data_points = None THEN 0
    ELSE result.data_points[1][2] - result.data_points[1][1]

\* RestTimeDetector.get_confidence_score; result is total_rest_time in minutes
RestTime_get_confidence_score(d, result) ==
    LET completeness == Rat(Len(hr_values(d)), d.n)
        session_duration == IF "cumulative_time" \in d.cols /\ d.n >= 2
                            THEN Rat((d.n - 1) * d.period, 60)
                            ELSE RZero
    IN  IF RLt(RZero, result) /\ RLt(RZero, session_duration)
        THEN LET rn == result[1] * session_duration[2]
                 rd == result[2] * session_duration[1]
             IN  IF RLe(Rat(3, 10), Rat(rn, rd)) /\ RLe(Rat(rn, rd), Rat(3, 5))
                 THEN completeness
                 ELSE RMul(completeness, RatioPenalised(rn, rd, 9, 20))
        ELSE RMul(completeness, Rat(3, 10))

RestTime_detect(d, ctx) ==
    IF ~validate_data({"heart_rate", "timestamp"}, d)
    THEN ErrorResult("total_rest_time", "Missing required data fields")
    ELSE LET df_with_zones == calculate_hr_zones(d, NoneInt) IN
    IF ~df_with_zones.has_hr_zone
    THEN ErrorResult("total_rest_time", "Failed to calculate HR zones")
    ELSE LET zones == df_with_zones.hr_zone
             warmup_points == ContextPoints(ctx.warmup_result)
             cooldown_points == ContextPoints(ctx.cooldown_result)
             low_zone_points == ZonePoints(zones, {1, 2})
             \* twice actual_rest_points
             actual_rest_points2 ==
                 Max2(0, 2 * low_zone_points - (warmup_points + cooldown_points))
             total_rest_time ==
                 Rat(actual_rest_points2 * seconds_per_sample(d), 120)
             confidence == RestTime_get_confidence_score(d, total_rest_time)
         IN  MetricResult("total_rest_time", total_rest_time, confidence,
                 [algorithm |-> "hr_zone_based_v1.0",
                  max_hr_used |-> df_with_zones.max_hr20,
                  total_low_zone_points |-> low_zone_points,
                  actual_rest_points |-> Rat(actual_rest_points2, 2)],
                 None, "1.0")

(***************************************************************************)
(* AvgPlayingHeartRateDetector, AvgRestHeartRateDetector                   *)
(***************************************************************************)
\* round(sum / len, 1) as a fraction of denominator 10 (ties to even)
round1(sum, len) ==
    LET q == (10 * sum) \div len
        r == (10 * sum) % len
    IN  Rat(IF 2 * r < len THEN q
            ELSE IF 2 * r > len THEN q + 1
            ELSE IF q % 2 = 0 THEN q ELSE q + 1, 10)

\* df_with_zones.loc[hr_zone.isin(zs), 'heart_rate'].dropna()
ZoneHeartRates(d, df_with_zones, zs) ==
    LET rows == SelectSeq([i \in 1 .. d.n |-> i],
                          LAMBDA i : /\ df_with_zones.hr_zone[i] \in zs
                                     /\ d.heart_rate[i] # NaN)
    IN  [k \in 1 .. Len(rows) |-> d.heart_rate[rows[k]]]

AvgPlayingHeartRate_detect(d, ctx) ==
    IF ~validate_data({"heart_rate"}, d)
    THEN ErrorResult("avg_playing_heart_rate", "Missing required data fields")
    ELSE LET df_with_zones == calculate_hr_zones(d, NoneInt) IN
    IF ~df_with_zones.has_hr_zone
    THEN ErrorResult("avg_playing_heart_rate", "Failed to calculate HR zones")
    ELSE LET playing_hr == ZoneHeartRates(d, df_with_zones, {3, 4, 5}) IN
    IF Len(playing_hr) = 0
    THEN ErrorResult("avg_playing_heart_rate", "No playing zone data")
    ELSE MetricResult("avg_playing_heart_rate",
             round1(SumSeq(playing_hr, 1, Len(playing_hr)), Len(playing_hr)),
             Rat(Len(playing_hr), d.n),
             [algorithm |-> "zone_based_v1.0",
              max_hr_used |-> df_with_zones.max_hr20,
              playing_samples |-> Len(playing_hr),
              total_samples |-> d.n],
             None, "1.0")

AvgRestHeartRate_detect(d, ctx) ==
    IF ~validate_data({"heart_rate"}, d)
    THEN ErrorResult("avg_rest_heart_rate", "Missing required data fields")
    ELSE LET df_with_zones == calculate_hr_zones(d, NoneInt) IN
    IF ~df_with_zones.has_hr_zone
    THEN ErrorResult("avg_rest_heart_rate", "Failed to calculate HR zones")
    ELSE LET rest_hr == ZoneHeartRates(d, df_with_zones, {1, 2}) IN
    IF Len(rest_hr) = 0
    THEN ErrorResult("avg_rest_heart_rate", "No rest zone data")
    ELSE MetricResult("avg_rest_heart_rate",
             round1(SumSeq(rest_hr, 1, Len(rest_hr)), Len(rest_hr)),
             Rat(Len(rest_hr), d.n),
             [algorithm |-> "zone_based_v1.0",
              max_hr_used |-> df_with_zones.max_hr20,
              rest_samples |-> Len(rest_hr),
              total_samples |-> d.n],
             None, "1.0")

(***************************************************************************)
(* MetricsFramework                                                        *)
(***************************************************************************)
\* the fields each detector declares in get_required_data_fields
required_data_fields(name) ==
    CASE name = "total_session_duration" -> {"timestamp"}
      [] name = "shots_detected" -> AccelCols \cup {"timestamp"}
      [] name \in {"avg_playing_heart_rate", "avg_rest_heart_rate"} -> {"heart_rate"}
      [] OTHER -> {"heart_rate", "timestamp"}

\* the algorithm_version each detector sets in __init__
algorithm_version(name) ==
    CASE name = "warm_up_length" -> "1.1"
      [] name = "number_of_rallies" -> "3.2"
      [] name = "total_playing_time" -> "2.0"
      [] OTHER -> "1.0"

\* detector.detect(df, context) of the detector registered under name
detect(name, d, ctx) ==
    CASE name = "warm_up_length" -> WarmUp_detect(d, ctx)
      [] name = "cool_down_length" -> CoolDown_detect(d, ctx)
      [] name = "number_of_games" -> Game_detect(d, ctx)
      [] name = "number_of_rallies" -> Rally_detect(d, ctx)
      [] name = "total_session_duration" -> SessionDuration_detect(d, ctx)
      [] name = "total_playing_time" -> PlayingTime_detect(d, ctx)
      [] name = "longest_rally_length" -> LongestRally_detect(d, ctx)
      [] name = "rallies_per_game" -> RalliesPerGame_detect(d, ctx)
      [] name = "rest_between_games" -> RestBetweenGames_detect(d, ctx)
      [] name = "shots_detected" -> AccelerometerShot_detect(d, ctx)
      [] name = "total_rest_time" -> RestTime_detect(d, ctx)
      [] name = "avg_playing_heart_rate" -> AvgPlayingHeartRate_detect(d, ctx)
      [] name = "avg_rest_heart_rate" -> AvgRestHeartRate_detect(d, ctx)

\* the registry after ModularAnalysisEngine._register_all_detectors
EngineDetectors ==
    << "warm_up_length", "cool_down_length", "number_of_games",
       "number_of_rallies", "total_session_duration", "total_playing_time",
       "longest_rally_length", "rallies_per_game", "rest_between_games",
       "shots_detected" >>

\* the detectors of additional_metrics.py the engine leaves out, registered
\* after it with register_detector
AllDetectors ==
    EngineDetectors \o
    << "total_rest_time", "avg_playing_heart_rate", "avg_rest_heart_rate" >>

\* an except branch that stores full confidence: a variant the exception
\* contract must tell apart from the source's
ExceptionResult_Confident(metric_name, e) ==
    [raised |-> FALSE, metric_name |-> metric_name, value |-> None,
     confidence |-> ROne, metadata |-> [error |-> e.msg],
     data_points |-> None, algorithm_version |-> "1.0"]

\* the result stored for a detector whose detect raised
ExceptionResult(metric_name, e) ==
    [raised |-> FALSE, metric_name |-> metric_name, value |-> None,
     confidence |-> RZero, metadata |-> [error |-> e.msg],
     data_points |-> None, algorithm_version |-> "1.0"]

\* detect_all_metrics: entry, `results = {}`
detect_all_metrics_begin ==
    /\ pc = "idle"
    /\ df.n > 0
    /\ \E ctx \in Contexts : context' = ctx
    /\ pc' = "running"
    /\ idx' = 1
    /\ run_results' = <<>>
    /\ UNCHANGED <<df, nruns, detectors, results, zone_in, zone_out, scan_out,
                   session_context,
                   event_analysis, performance_analysis>>

\* the try/except of the loop body: the result stored under metric_name
\* for the outcome of detector.detect(df, context)
TryDetect(metric_name, outcome) ==
    IF outcome.raised THEN ExceptionResult(metric_name, outcome) ELSE outcome

\* the iteration with the zone labels written into the caller's frame
\* instead of a copy: a variant the frame condition must tell apart from the
\* source's
detect_all_metrics_step_ZonesInPlace ==
    /\ pc = "running"
    /\ idx <= Len(detectors)
    /\ run_results' =
           Append(run_results,
                  TryDetect(detectors[idx], detect(detectors[idx], df, context)))
    /\ idx' = idx + 1
    /\ df' = IF "heart_rate" \in df.cols
             THEN [df EXCEPT !.cols = @ \cup {"hr_zone"}] ELSE df
    /\ UNCHANGED <<nruns, detectors, results, context, pc, zone_in, zone_out,
                   scan_out, session_context,
                   event_analysis, performance_analysis>>

\* detect_all_metrics: one iteration of the loop over self.detectors.items()
detect_all_metrics_step ==
    /\ pc = "running"
    /\ idx <= Len(detectors)
    /\ run_results' =
           Append(run_results,
                  TryDetect(detectors[idx], detect(detectors[idx], df, context)))
    /\ idx' = idx + 1
    /\ UNCHANGED <<df, nruns, detectors, results, context, pc, zone_in, zone_out,
                   scan_out,
                   session_context,
                   event_analysis, performance_analysis>>

\* detect_all_metrics: `self.results = results; return results`
detect_all_metrics_return ==
    /\ pc = "running"
    /\ idx > Len(detectors)
    /\ results' = run_results
    /\ pc' = "done"
    /\ UNCHANGED <<df, nruns, detectors, context, idx, run_results,
                   zone_in, zone_out, scan_out,
                   session_context,
                   event_analysis, performance_analysis>>

Init ==
    /\ \E shape \in Shapes : df = EmptyFrame(shape)
    /\ nruns = 0
    /\ detectors = AllDetectors
    /\ results = <<>>
    /\ context = NoContext
    /\ pc = "idle"
    /\ idx = 0
    /\ run_results = <<>>
    /\ zone_in = None
    /\ zone_out = None
    /\ scan_out = None
    /\ session_context = NoSession
    /\ event_analysis = None
    /\ performance_analysis = NoPerformance

Next ==
    \/ \E run \in HrRuns \cup AccelRuns : AppendSamples(run)
    \/ detect_all_metrics_begin
    \/ detect_all_metrics_step
    \/ detect_all_metrics_return

Spec == Init /\ [][Next]_vars

(***************************************************************************)
(* The zone classifiers on their own: one sample and one max_hr, drawn     *)
(* from bounded sets, classified by the core and by the ingestion port.    *)
(***************************************************************************)
MaxZoneHr == 220

ZoneHrs == (0 .. MaxZoneHr) \cup {NaN}

\* max_hr in twentieths of a bpm: the port's default 185.0, the core's
\* default 200, 208 - 0.7 * 30 = 187.0, and the estimate 186 * 1.05 = 195.3
ZoneMaxHrs == {185 * 20, 200 * 20, 187 * 20, 21 * 186}

\* a frame of one row holding the heart rate hr
ZoneFrame(hr) ==
    [cols |-> HrCols, n |-> 1, heart_rate |-> <<hr>>, accel |-> <<>>, period |-> 1]

\* both classifiers applied to the frame of zone_in
ClassifySample ==
    /\ zone_out = None
    /\ zone_out' =
           [core |-> calculate_hr_zones(ZoneFrame(zone_in.hr), zone_in.max_hr20).hr_zone[1],
            service |-> svc_calculate_hr_zones(ZoneFrame(zone_in.hr), zone_in.max_hr20)[1]]
    /\ UNCHANGED <<df, nruns, detectors, results, context, pc, idx, run_results,
                   zone_in, scan_out,
                   session_context,
                   event_analysis, performance_analysis>>

ZoneInit ==
    /\ df = EmptyFrame([cols |-> HrCols, period |-> 1])
    /\ nruns = 0
    /\ detectors = AllDetectors
    /\ results = <<>>
    /\ context = NoContext
    /\ pc = "idle"
    /\ idx = 0
    /\ run_results = <<>>
    /\ zone_in \in [hr : ZoneHrs, max_hr20 : ZoneMaxHrs]
    /\ zone_out = None
    /\ scan_out = None
    /\ session_context = NoSession
    /\ event_analysis = None
    /\ performance_analysis = NoPerformance

ZoneNext == ClassifySample

ZoneSpec == ZoneInit /\ [][ZoneNext]_vars

(***************************************************************************)
(* The scans of RallyDetector and CoolDownDetector on their own: a series  *)
(* drawn from a bounded family - flat at a base heart rate, or flat with   *)
(* one dip - handed to the two detectors.                                  *)
(***************************************************************************)
\* the length of the series with a dip
ScanLen == 60

\* the longest dip, in samples
MaxDipLen == 3

FlatLens == {12, 45, 46, 60, 1000}

ScanBases == {80, 120, 160}

DipDepths == {5, 10}

\* a series of n samples at base, except len samples from index at on
\* (0-based), which are depth lower
DippedSeries(n, base, at, len, depth) ==
    [i \in 1 .. n |-> IF at < i /\ i <= at + len THEN base - depth ELSE base]

FlatSeries(n, base) == [i \in 1 .. n |-> base]

\* the samples between the two dips of a series with two dips
DipGaps == {3, 8, 12, 20}

\* a series of n samples at base with two dips of len samples, the second
\* one gap samples after the first
TwoDipSeries(n, base, at, len, gap, depth) ==
    [i \in 1 .. n |->
        IF \/ at < i /\ i <= at + len
           \/ at + len + gap < i /\ i <= at + len + gap + len
        THEN base - depth ELSE base]

\* the length of the series that fall over their last 20%: the shortest one
\* whose last 20% has the 10 samples CoolDownDetector asks for
TailLen == 50

\* a series of n samples at base that steps down by 1 bpm at each of the
\* indices downs (0-based) and never rises
TailSeries(n, base, downs) ==
    [i \in 1 .. n |-> base - Cardinality({ j \in downs : j <= i - 1 })]

ScanSeries ==
    { FlatSeries(n, base) : n \in FlatLens, base \in ScanBases }
    \cup { DippedSeries(ScanLen, base, at, len, depth) :
               base \in ScanBases, at \in 0 .. ScanLen - 1,
               len \in 1 .. MaxDipLen, depth \in DipDepths }
    \cup { TwoDipSeries(ScanLen, base, at, len, gap, depth) :
               base \in ScanBases, at \in 0 .. ScanLen - 1,
               len \in 1 .. MaxDipLen, gap \in DipGaps, depth \in DipDepths }
    \cup { TailSeries(TailLen, base, downs) :
               base \in ScanBases,
               downs \in SUBSET ((TailLen * 4) \div 5 .. TailLen - 1) }

\* a preprocessed frame, one sample per second, holding the heart rates hr
ScanFrame(hr) ==
    [cols |-> HrCols \cup DerivedCols, n |-> Len(hr), heart_rate |-> hr,
     accel |-> <<>>, period |-> 1]

\* RallyDetector.detect and CoolDownDetector.detect on the series:
\* rally_boundaries is the list the scan of RallyDetector.detect has built
\* when its loop ends (the scan runs from 10 samples on), cool_down the
\* result of CoolDownDetector.detect
DetectOnSeries ==
    /\ scan_out = None
    /\ scan_out' =
           [rally_boundaries |->
                IF Len(hr_values(df)) < 10 THEN <<>>
                ELSE Rally_boundaries(hr_values(df)),
            cool_down |-> CoolDown_detect(df, NoContext)]
    /\ UNCHANGED <<df, nruns, detectors, results, context, pc, idx, run_results,
                   zone_in, zone_out, session_context,
                   event_analysis, performance_analysis>>

ScanInit ==
    /\ \E hr \in ScanSeries : df = ScanFrame(hr)
    /\ nruns = 0
    /\ detectors = AllDetectors
    /\ results = <<>>
    /\ context = NoContext
    /\ pc = "idle"
    /\ idx = 0
    /\ run_results = <<>>
    /\ zone_in = None
    /\ zone_out = None
    /\ scan_out = None
    /\ session_context = NoSession
    /\ event_analysis = None
    /\ performance_analysis = NoPerformance

ScanNext == DetectOnSeries

ScanSpec == ScanInit /\ [][ScanNext]_vars

(***************************************************************************)
(* ModularAnalysisEngine: set_session_context and analyze_session around   *)
(* the framework's detect_all_metrics, on a few series.                    *)
(***************************************************************************)
HandPositions == {"playing_hand", "non_playing_hand"}

SessionTypes == {"training", "match"}

\* ModularAnalysisEngine.set_session_context
set_session_context(hand_position, session_type) ==
    /\ pc = "idle"
    /\ session_context' =
           [hand_position |-> hand_position, session_type |-> session_type]
    /\ UNCHANGED <<df, nruns, detectors, results, context, pc, idx, run_results,
                   zone_in, zone_out, scan_out,
                   event_analysis, performance_analysis>>

\* the context analyze_session builds: a copy of session_context with
\* session_duration, cumulative_time.iloc[-1] / 60 or 0, added
analyze_context(sc, d) ==
    [session_duration |->
        IF "cumulative_time" \in d.cols THEN Rat((d.n - 1) * d.period, 60)
        ELSE Rat(0, 1)] @@ sc

\* what the detectors' reads of a context dict yield
context_reads(dict) ==
    [key \in DOMAIN NoContext |->
        IF key \in DOMAIN dict THEN dict[key] ELSE NoContext[key]]

\* ModularAnalysisEngine.analyze_session up to its call of
\* detect_all_metrics and into it (`results = {}`); the analysis it builds
\* from the returned mapping changes nothing of the engine
analyze_session ==
    /\ pc = "idle"
    /\ df.n > 0
    /\ context' = context_reads(analyze_context(session_context, df))
    /\ pc' = "running"
    /\ idx' = 1
    /\ run_results' = <<>>
    /\ UNCHANGED <<df, nruns, detectors, results, zone_in, zone_out, scan_out,
                   session_context,
                   event_analysis, performance_analysis>>

EngineFrames ==
    { ScanFrame(hr) :
        hr \in { FlatSeries(n, 120) : n \in {12, 46, 60} }
               \cup { DippedSeries(ScanLen, 120, at, MaxDipLen, 10) : at \in {0, 29} } }
    \cup { [ScanFrame(FlatSeries(46, 120)) EXCEPT !.cols = HrCols] }

EngineInit ==
    /\ df \in EngineFrames
    /\ nruns = 0
    /\ detectors = AllDetectors
    /\ results = <<>>
    /\ context = NoContext
    /\ pc = "idle"
    /\ idx = 0
    /\ run_results = <<>>
    /\ zone_in = None
    /\ zone_out = None
    /\ scan_out = None
    /\ session_context = NoSession
    /\ event_analysis = None
    /\ performance_analysis = NoPerformance

EngineNext ==
    \/ \E h \in HandPositions, t \in SessionTypes : set_session_context(h, t)
    \/ analyze_session
    \/ detect_all_metrics_begin
    \/ detect_all_metrics_step
    \/ detect_all_metrics_return

EngineSpec == EngineInit /\ [][EngineNext]_vars

(***************************************************************************)
(* MetricsFramework on its own: a framework that starts with an empty      *)
(* registry, on which detectors are registered and detect_all_metrics is   *)
(* called any number of times, each call with the frame and the context    *)
(* its caller passes.  A detector object holds its metric name, type and   *)
(* version and no other state, so the registry is held as the order of its *)
(* keys.                                                                   *)
(***************************************************************************)
\* the detectors registered in this specification
RegistryNames == {"warm_up_length", "number_of_games", "total_session_duration"}

\* the frames its callers pass
RegistryFrames ==
    { ScanFrame(FlatSeries(n, 120)) : n \in {12, 60} }
    \cup { [ScanFrame(FlatSeries(46, 120)) EXCEPT !.cols = HrCols] }

\* a registration that adds an entry even when the name is registered: a
\* variant the registry invariant must tell apart from the source's
register_detector_Appending(name) ==
    /\ pc \in {"idle", "done"}
    /\ detectors' = Append(detectors, name)
    /\ UNCHANGED <<df, nruns, results, context, pc, idx, run_results,
                   zone_in, zone_out, scan_out, session_context,
          event_analysis, performance_analysis>>

\* register_detector: `self.detectors[detector.metric_name] = detector`; a
\* key that is already in the dict keeps its place in the order
register_detector(name) ==
    /\ pc \in {"idle", "done"}
    /\ detectors' = IF \E k \in 1 .. Len(detectors) : detectors[k] = name
                    THEN detectors
                    ELSE Append(detectors, name)
    /\ UNCHANGED <<df, nruns, results, context, pc, idx, run_results,
                   zone_in, zone_out, scan_out, session_context,
          event_analysis, performance_analysis>>

\* detect_all_metrics(df, context): entry, `results = {}`, on a framework
\* that may have run before; self.results keeps the mapping of the earlier
\* run until this one returns
detect_all_metrics_call(frame, ctx) ==
    /\ pc \in {"idle", "done"}
    /\ df' = frame
    /\ context' = ctx
    /\ pc' = "running"
    /\ idx' = 1
    /\ run_results' = <<>>
    /\ UNCHANGED <<nruns, detectors, results, zone_in, zone_out, scan_out,
                   session_context,
                   event_analysis, performance_analysis>>

\* get_metric_result: `self.results.get(metric_name)`
get_metric_result(metric_name) ==
    IF \E k \in 1 .. Len(results) : results[k].metric_name = metric_name
    THEN results[CHOOSE k \in 1 .. Len(results) :
                     results[k].metric_name = metric_name]
    ELSE None

RegistryInit ==
    /\ df \in RegistryFrames
    /\ nruns = 0
    /\ detectors = <<>>
    /\ results = <<>>
    /\ context = NoContext
    /\ pc = "idle"
    /\ idx = 0
    /\ run_results = <<>>
    /\ zone_in = None
    /\ zone_out = None
    /\ scan_out = None
    /\ session_context = NoSession
    /\ event_analysis = None
    /\ performance_analysis = NoPerformance

RegistryNext ==
    \/ \E name \in RegistryNames : register_detector(name)
    \/ \E frame \in RegistryFrames, ctx \in Contexts :
           detect_all_metrics_call(frame, ctx)
    \/ detect_all_metrics_step
    \/ detect_all_metrics_return

RegistrySpec == RegistryInit /\ [][RegistryNext]_vars

(***************************************************************************)
(* EventDetector and PerformanceAnalyzer, the two analysers that           *)
(* src/tests/test_mvp.py runs on a preprocessed series.  The series of     *)
(* this specification have no cadence column.                              *)
(***************************************************************************)
\* the rolling mean of window w rises at position i (0-based):
\* rolling_mean.diff() > 0, False where either mean is NaN
RollRises(x, w, i) ==
    /\ i >= 1
    /\ RollValid(Len(x), w, i)
    /\ RollValid(Len(x), w, i - 1)
    /\ RollSum(x, w, i) > RollSum(x, w, i - 1)

\* the values detect_warm_up can return as 'end_time'.  warmup_mask wants,
\* at a label up to len * 0.2, a rising rolling mean and a rolling standard
\* deviation below its own 30% quantile; the comparison of the standard
\* deviations (square roots, interpolated) is not computed here, so it may
\* hold at any of the labels where the mean rises or at none of them.
\* end_time is the largest label of the mask, 0 when the mask is empty.
detect_warm_up_ends(d) ==
    IF "heart_rate" \notin d.cols THEN {0}
    ELSE LET hr == hr_values(d)
             window_size == Min2(30, Len(hr) \div 4)
         IN  IF Len(hr) < 10 THEN {0}
             ELSE {0} \cup { At(hr_index(d), i) : i \in
                      { k \in 0 .. Len(hr) - 1 :
                          /\ RollRises(hr, window_size, k)
                          /\ 5 * At(hr_index(d), k) <= Len(hr) } }

\* 50 * rally_threshold, rally_threshold = baseline + (max - baseline) * 0.3,
\* baseline the 20% quantile of the heart rates from the warm-up's end on
RallyThreshold50(hr, warmup_end) ==
    LET baseline5 == IF warmup_end > 0
                     THEN Quantile20x5(Slice(hr, warmup_end, Len(hr)))
                     ELSE Quantile20x5(hr)
    IN  7 * baseline5 + 15 * MaxSeq(hr, 1, Len(hr))

\* one iteration of that loop
EventScanStep(hr, thr50, st) ==
    IF 50 * At(hr, st.i) > thr50 /\ st.current_start = NoneInt
    THEN [st EXCEPT !.i = @ + 1, !.current_start = st.i]
    ELSE IF ~(50 * At(hr, st.i) > thr50) /\ st.current_start # NoneInt
    THEN [i |-> st.i + 1,
          current_start |-> NoneInt,
          rally_periods |->
              IF st.i - st.current_start >= 5
              THEN Append(st.rally_periods, <<st.current_start, st.i>>)
              ELSE st.rally_periods]
    ELSE [st EXCEPT !.i = @ + 1]

RECURSIVE EventScan(_, _, _, _)
\* the iterations from position st.i up to hi - 1, the first half of them
\* and then the rest
EventScan(hr, thr50, hi, st) ==
    IF st.i >= hi THEN st
    ELSE IF st.i + 1 = hi THEN EventScanStep(hr, thr50, st)
    ELSE EventScan(hr, thr50, hi, EventScan(hr, thr50, (st.i + hi) \div 2, st))

\* the scan without the lines after the loop: a variant the count of the
\* rallies must tell apart from the source's
EventScanClose_Dropped(hr, st) == st.rally_periods

\* after the loop: `if current_start is not None and len(hr_data) -
\* current_start >= 5: rally_periods.append((current_start, len(hr_data)))`
EventScanClose(hr, st) ==
    IF st.current_start # NoneInt /\ Len(hr) - st.current_start >= 5
    THEN Append(st.rally_periods, <<st.current_start, Len(hr)>>)
    ELSE st.rally_periods

\* one entry of the list detect_rallies returns; period is the (start_idx,
\* end_idx) pair of rally_periods it is built from
EventRally(d, hr, period) ==
    LET start_idx == period[1]
        end_idx == period[2]
        actual_start_idx == At(hr_index(d), start_idx)
        actual_end_idx == IF end_idx < Len(hr) THEN At(hr_index(d), end_idx - 1)
                          ELSE At(hr_index(d), Len(hr) - 1)
    IN  [period |-> period,
         start_time |-> actual_start_idx,
         end_time |-> actual_end_idx,
         duration_minutes |->
             Rat((actual_end_idx - actual_start_idx) * time_diff_mean(d), 60),
         avg_heart_rate |->
             Rat(SumSeq(hr, start_idx + 1, end_idx), end_idx - start_idx),
         max_heart_rate |-> MaxSeq(hr, start_idx + 1, end_idx),
         intensity |-> Rally_calculate_intensity(hr, start_idx, end_idx)]

\* EventDetector.detect_rallies, warmup_end being what its call of
\* detect_warm_up returned as 'end_time'
detect_rallies(d, warmup_end) ==
    IF "heart_rate" \notin d.cols THEN <<>>
    ELSE LET hr == hr_values(d) IN
    IF Len(hr) < 10 THEN <<>>
    ELSE LET thr50 == RallyThreshold50(hr, warmup_end)
             \* the loop variables before the first iteration of the loop
             \* over enumerate(above_threshold)
             start == [i |-> 0, current_start |-> NoneInt,
                       rally_periods |-> <<>>]
             rally_periods ==
                 EventScanClose(hr, EventScan(hr, thr50, Len(hr), start))
         IN  [k \in 1 .. Len(rally_periods) |-> EventRally(d, hr, rally_periods[k])]

\* EventDetector.detect_rest_periods: the rest periods, each with its
\* (start_idx, end_idx) pair and its duration (avg_heart_rate and
\* recovery_rate are left out: nothing reads them)
detect_rest_periods(d) ==
    IF "heart_rate" \notin d.cols THEN <<>>
    ELSE LET hr == hr_values(d) IN
    IF Len(hr) < 10 THEN <<>>
    ELSE LET rest_periods_list ==
                 RestScan(hr, RestThreshold500(hr), Len(hr), RestScanStart).rest_periods
         IN  [k \in 1 .. Len(rest_periods_list) |->
                 LET start_idx == rest_periods_list[k][1]
                     end_idx == rest_periods_list[k][2]
                     actual_start_idx == At(hr_index(d), start_idx)
                     actual_end_idx ==
                         IF end_idx < Len(hr) THEN At(hr_index(d), end_idx - 1)
                         ELSE At(hr_index(d), Len(hr) - 1)
                 IN  [period |-> rest_periods_list[k],
                      start_time |-> actual_start_idx,
                      end_time |-> actual_end_idx,
                      duration_minutes |->
                          Rat((actual_end_idx - actual_start_idx)
                                  * time_diff_mean(d), 60)]]

\* EventDetector.detect_shots: without a cadence column, no shot
detect_shots(d) == <<>>

\* the longest of the durations of the rallies, 0 when there is none
LongestDuration(rallies) ==
    IF rallies = <<>> THEN RZero
    ELSE rallies[CHOOSE k \in 1 .. Len(rallies) :
                     \A j \in 1 .. Len(rallies) :
                         RLe(rallies[j].duration_minutes,
                             rallies[k].duration_minutes)].duration_minutes

\* EventDetector.analyze_session: the four detections and the summary
\* compiled from them (of the warm-up only 'end_time' is kept, and
\* avg_rally_duration and warmup_duration are left out of the summary)
EventDetector_analyze_session ==
    /\ event_analysis = None
    /\ \E warmup_end \in detect_warm_up_ends(df) :
           LET rallies == detect_rallies(df, warmup_end)
               rest_periods == detect_rest_periods(df)
               shots == detect_shots(df)
           IN  event_analysis' =
                   [warmup |-> [end_time |-> warmup_end],
                    rallies |-> rallies,
                    rest_periods |-> rest_periods,
                    shots |-> shots,
                    session_summary |->
                        [total_rallies |-> Len(rallies),
                         total_shots |-> Len(shots),
                         longest_rally_duration |-> LongestDuration(rallies)]]
    /\ UNCHANGED <<df, nruns, detectors, results, context, pc, idx, run_results,
                   zone_in, zone_out, scan_out, session_context,
                   performance_analysis>>

\* the sign of the slope stats.linregress(xs, ys) fits: that of
\* n * sum(x*y) - sum(x) * sum(y)
SlopeSign(xs, ys) ==
    LET n == Len(xs)
        num == n * SumSeq([k \in 1 .. n |-> xs[k] * ys[k]], 1, n)
                   - SumSeq(xs, 1, n) * SumSeq(ys, 1, n)
    IN  IF num > 0 THEN 1 ELSE IF num < 0 THEN -1 ELSE 0

\* the values _analyze_hr_drift can return.  The p-values of the
\* regressions are not computed here: a test on one may pass or fail.  The
\* signs of the slopes are: without a rising trend of the rolling mean the
\* answer is None, and the point i / len is one whose window
\* rolling_avg[i-w : i+w] has no NaN and rises.
analyze_hr_drift_points(hr) ==
    IF Len(hr) < 30 THEN {None}
    ELSE LET window_size == Min2(20, Len(hr) \div 3)
             valid == SelectSeq([k \in 1 .. Len(hr) |-> k - 1],
                                LAMBDA i : RollValid(Len(hr), window_size, i))
             rolling(xs) == [k \in 1 .. Len(xs) |-> RollSum(hr, window_size, xs[k])]
             segment(i) == [k \in 1 .. 2 * window_size |-> i - window_size + k - 1]
         IN  IF Len(valid) < 10 \/ SlopeSign(valid, rolling(valid)) <= 0
             THEN {None}
             ELSE {None} \cup
                  { Rat(i, Len(hr)) : i \in
                      { j \in window_size .. Len(hr) - window_size - 1 :
                          /\ RollValid(Len(hr), window_size, j - window_size)
                          /\ RollValid(Len(hr), window_size, j + window_size - 1)
                          /\ SlopeSign(segment(j), rolling(segment(j))) > 0 } }

\* the rallies handed to detect_performance_deterioration: None, or a list
\* of rallies with their durations, in whole seconds, and no 'intensity'
RallyLists ==
    { None,
      [k \in 1 .. 4 |-> [duration_minutes |-> Rat(60 * (5 - k), 60)]],
      [k \in 1 .. 6 |-> [duration_minutes |-> Rat(60 * (7 - k), 60)]],
      [k \in 1 .. 6 |-> [duration_minutes |-> Rat(120, 60)]] }

\* the values _analyze_rally_decline can return: None unless a slope falls
\* and its p-value (not computed here) passes, else i / len for the first
\* i of range(3, len - 2) whose later rallies are more than 10% below the
\* earlier ones.  Durations are in sixtieths of a minute and intensities,
\* r.get('intensity', 0), in hundredths.
analyze_rally_decline_points(rallies) ==
    IF Len(rallies) < 5 THEN {None}
    ELSE LET n == Len(rallies)
             rally_numbers == [k \in 1 .. n |-> k - 1]
             durations == [k \in 1 .. n |-> rallies[k].duration_minutes[1]]
             intensities ==
                 [k \in 1 .. n |->
                     IF "intensity" \in DOMAIN rallies[k]
                     THEN rallies[k].intensity[1] ELSE 0]
             \* np.mean(v[i:]) < np.mean(v[:i]) * 0.9
             Declined(v, i) ==
                 10 * SumSeq(v, i + 1, n) * i < 9 * SumSeq(v, 1, i) * (n - i)
             found == { i \in 3 .. n - 3 :
                          Declined(durations, i) \/ Declined(intensities, i) }
         IN  IF /\ SlopeSign(rally_numbers, durations) >= 0
                /\ SlopeSign(rally_numbers, intensities) >= 0
             THEN {None}
             ELSE {None} \cup
                  (IF found = {} THEN {}
                   ELSE { Rat(CHOOSE i \in found : \A j \in found : i <= j, n) })

\* the values _analyze_recovery_decline can return: the recovery rate of a
\* segment is its heart-rate drop over a time that is the same for every
\* segment; None unless the rates fall and the p-value (not computed here)
\* passes, else i / len(recovery_rates) for the first rate under 80% of the
\* first one
analyze_recovery_decline_points(d) ==
    LET hr == hr_values(d) IN
    IF Len(hr) < 50 THEN {None}
    ELSE LET segment_size == Len(hr) \div 5
             starts == SelectSeq([k \in 1 .. Len(hr) - segment_size |-> k - 1],
                                 LAMBDA i : i % segment_size = 0)
             recovery_rates ==
                 IF segment_size > 10
                 THEN [k \in 1 .. Len(starts) |->
                          At(hr, starts[k]) - At(hr, starts[k] + segment_size - 1)]
                 ELSE <<>>
             n == Len(recovery_rates)
             found == { i \in 1 .. n - 1 :
                          10 * At(recovery_rates, i) < 8 * At(recovery_rates, 0) }
         IN  IF n < 3 THEN {None}
             ELSE IF SlopeSign([k \in 1 .. n |-> k - 1], recovery_rates) >= 0
             THEN {None}
             ELSE {None} \cup
                  (IF found = {} THEN {}
                   ELSE { Rat(CHOOSE i \in found : \A j \in found : i <= j, n) })

RAdd(a, b) == <<a[1] * b[2] + b[1] * a[2], a[2] * b[2]>>

RECURSIVE WeightedSum(_, _)
\* sum(weighted_points) over the first n indicators, with
\* weights = {'hr_drift': 0.4, 'rally_decline': 0.4, 'recovery_decline': 0.2}
WeightedSum(indicators, n) ==
    LET weight(type) ==
            CASE type = "hr_drift" -> Rat(2, 5)
              [] type = "rally_decline" -> Rat(2, 5)
              [] type = "recovery_decline" -> Rat(1, 5)
    IN  IF n = 0 THEN RZero
        ELSE RAdd(WeightedSum(indicators, n - 1),
                  RMul(indicators[n].point, weight(indicators[n].type)))

\* the dict detect_performance_deterioration returns, given what the three
\* analyses returned (the 'severity' of an indicator is left out); the sum
\* of the weighted points is divided by sum(weights.values()), which is 1
deterioration(d, rallies, drift_point, rally_point, recovery_point) ==
    IF "heart_rate" \notin d.cols \/ Len(hr_values(d)) < 50
    THEN [deterioration_point |-> None, confidence |-> RZero, indicators |-> <<>>]
    ELSE LET indicators ==
                 (IF drift_point # None
                  THEN <<[type |-> "hr_drift", point |-> drift_point]>>
                  ELSE <<>>)
                 \o (IF rallies # <<>> /\ rally_point # None
                     THEN <<[type |-> "rally_decline", point |-> rally_point]>>
                     ELSE <<>>)
                 \o (IF recovery_point # None
                     THEN <<[type |-> "recovery_decline",
                             point |-> recovery_point]>>
                     ELSE <<>>)
         IN  IF indicators = <<>>
             THEN [deterioration_point |-> None, confidence |-> RZero,
                   indicators |-> <<>>]
             ELSE LET deterioration_point ==
                          RMul(WeightedSum(indicators, Len(indicators)), Rat(1, 1))
                  IN  [deterioration_point |-> deterioration_point,
                       confidence |-> RMin(Rat(Len(indicators), 3), ROne),
                       indicators |-> indicators,
                       time_minutes |->
                           IF "time_diff" \in d.cols
                           THEN RMul(deterioration_point, Rat(time_diff_mean(d), 60))
                           ELSE RZero]

\* PerformanceAnalyzer.detect_performance_deterioration(df, rallies=rallies)
detect_performance_deterioration ==
    /\ performance_analysis.deterioration = None
    /\ \E rallies \in RallyLists :
       \E hr_drift_point \in
              IF "heart_rate" \in df.cols /\ Len(hr_values(df)) >= 50
              THEN analyze_hr_drift_points(hr_values(df)) ELSE {None} :
       \E rally_decline_point \in
              IF rallies # None THEN analyze_rally_decline_points(rallies)
              ELSE {None} :
       \E recovery_decline_point \in
              IF "heart_rate" \in df.cols
              THEN analyze_recovery_decline_points(df) ELSE {None} :
           performance_analysis' =
               [performance_analysis EXCEPT !.deterioration =
                   deterioration(df, rallies, hr_drift_point,
                                 rally_decline_point, recovery_decline_point)]
    /\ UNCHANGED <<df, nruns, detectors, results, context, pc, idx, run_results,
                   zone_in, zone_out, scan_out, session_context,
                   event_analysis>>

\* 20 * the bounds (zone_min, zone_max) of a band, hr_range = hr_max - hr_min
IntensityBounds20(band, hr_min, hr_max) ==
    LET hr_range == hr_max - hr_min IN
    CASE band = "recovery" -> <<20 * hr_min, 20 * hr_min + 10 * hr_range>>
      [] band = "aerobic" ->
             <<20 * hr_min + 10 * hr_range, 20 * hr_min + 14 * hr_range>>
      [] band = "threshold" ->
             <<20 * hr_min + 14 * hr_range, 20 * hr_min + 17 * hr_range>>
      [] band = "anaerobic" -> <<20 * hr_min + 17 * hr_range, 20 * hr_max>>

\* the dict analyze_intensity_zones returns (of a band the number of its
\* samples, zone_mask.sum(), and its percentage are kept; of the session
\* statistics the extremes)
intensity_zones(d) ==
    IF "heart_rate" \notin d.cols \/ Len(hr_values(d)) < 10
    THEN [zones |-> <<>>, zone_distribution |-> <<>>]
    ELSE LET hr == hr_values(d)
             hr_max == MaxSeq(hr, 1, Len(hr))
             hr_min == MinSeq(hr, 1, Len(hr))
             \* the four bands, in the order of the dict
             bands == <<"recovery", "aerobic", "threshold", "anaerobic">>
             zones == [k \in 1 .. 4 |->
                          IntensityBounds20(bands[k], hr_min, hr_max)]
             \* (hr_data >= zone_min) & (hr_data < zone_max)
             zone_mask(k) ==
                 { i \in 1 .. Len(hr) :
                     /\ 20 * hr[i] >= zones[k][1]
                     /\ 20 * hr[i] < zones[k][2] }
         IN  [zones |-> zones,
              zone_distribution |->
                  [k \in 1 .. 4 |->
                      [name |-> bands[k],
                       points |-> Cardinality(zone_mask(k)),
                       percentage |->
                           Rat(100 * Cardinality(zone_mask(k)), Len(hr))]],
              session_stats |-> [max_hr |-> hr_max, min_hr |-> hr_min]]

\* PerformanceAnalyzer.analyze_intensity_zones(df)
analyze_intensity_zones ==
    /\ performance_analysis.intensity_zones = None
    /\ performance_analysis' =
           [performance_analysis EXCEPT !.intensity_zones = intensity_zones(df)]
    /\ UNCHANGED <<df, nruns, detectors, results, context, pc, idx, run_results,
                   zone_in, zone_out, scan_out, session_context,
                   event_analysis>>

\* the heart-rate bump of the series with bumps, in bpm
BumpHeight == 20

\* the lengths of the bumps, in samples
BumpLens == {4, 5, 6}

\* the length of the series with bumps
BumpSeriesLen == 30

\* a series of n samples that falls by 1 bpm a sample down to base, at
\* index turn, and rises by 1 bpm a sample from there
VeeSeries(n, base, turn) ==
    [i \in 1 .. n |-> base + Abs(i - 1 - turn)]

MvpSeries ==
    { FlatSeries(n, 120) : n \in {9, 60} }
    \cup { VeeSeries(60, 100, turn) : turn \in {0, 12, 30, 59} }
    \cup { DippedSeries(BumpSeriesLen, 120, at, len, -BumpHeight) :
               at \in 0 .. BumpSeriesLen - 1, len \in BumpLens }
    \cup { TwoDipSeries(BumpSeriesLen, 120, at, len, gap, -BumpHeight) :
               at \in 0 .. BumpSeriesLen - 1, len \in BumpLens, gap \in {1, 8} }
    \* heart rates missing at the start of the series
    \cup { <<NaN, NaN>> \o DippedSeries(BumpSeriesLen, 120, at, len, -BumpHeight) :
               at \in {0, 10, BumpSeriesLen - 5}, len \in BumpLens }

MvpInit ==
    /\ \E hr \in MvpSeries : df = ScanFrame(hr)
    /\ nruns = 0
    /\ detectors = AllDetectors
    /\ results = <<>>
    /\ context = NoContext
    /\ pc = "idle"
    /\ idx = 0
    /\ run_results = <<>>
    /\ zone_in = None
    /\ zone_out = None
    /\ scan_out = None
    /\ session_context = NoSession
    /\ event_analysis = None
    /\ performance_analysis = NoPerformance

MvpNext ==
    \/ EventDetector_analyze_session
    \/ detect_performance_deterioration
    \/ analyze_intensity_zones

MvpSpec == MvpInit /\ [][MvpNext]_vars

(***************************************************************************)
(* Properties.                                                             *)
(***************************************************************************)
\* the result has the error tag
HasError(r) == "error" \in DOMAIN r.metadata

\* value 0, confidence 0.0 and an error tag
ZeroWithError(r) ==
    /\ r.value = Rat(0, 1)
    /\ r.confidence = RZero
    /\ HasError(r)

\* the detector registered under name has just run; Last is its stored result
JustRan(name) ==
    /\ pc = "running"
    /\ Len(run_results) >= 1
    /\ detectors[Len(run_results)] = name

Last == run_results[Len(run_results)]

\* the results stored so far for the metric name
StoredFor(name) ==
    { k \in 1 .. Len(run_results) : run_results[k].metric_name = name }

(* C1: when detect of a registered detector raises, detect_all_metrics     *)
(* stores for that metric a result with confidence 0.0 whose               *)
(* metadata.error is the exception message and goes on with the next       *)
(* detector; the mapping it returns has an entry for every registered      *)
(* detector, in registration order.                                        *)
C1_RaiseIsCaughtStep ==
    (pc = "running" /\ idx <= Len(detectors)) =>
        LET outcome == detect(detectors[idx], df, context)
        IN  outcome.raised =>
                /\ Len(run_results') = idx
                /\ run_results'[idx].metric_name = detectors[idx]
                /\ run_results'[idx].confidence = RZero
                /\ HasError(run_results'[idx])
                /\ run_results'[idx].metadata.error = outcome.msg
                /\ pc' = "running"
                /\ idx' = idx + 1

C1_AllDetectorsRun ==
    pc = "done" =>
        /\ Len(results) = Len(detectors)
        /\ \A k \in 1 .. Len(detectors) : results[k].metric_name = detectors[k]

C1_RaiseIsCaught == []C1_AllDetectorsRun /\ [][C1_RaiseIsCaughtStep]_vars

\* a returned mapping in which a detector raised (its value is None) and the
\* detector registered after it produced a result of its own
C1_Witness ==
    /\ pc = "done"
    /\ \E k \in 1 .. Len(results) - 1 :
           /\ results[k].value = None
           /\ results[k].metadata.error = "single positional indexer is out-of-bounds"
           /\ results[k + 1].value # None

(* C2: every result stored by detect_all_metrics has a confidence between  *)
(* 0.0 and 1.0.                                                            *)
C2_ConfidenceInUnitInterval ==
    \A k \in 1 .. Len(run_results) :
        /\ RLe(RZero, run_results[k].confidence)
        /\ RLe(run_results[k].confidence, ROne)

(* C3: for a series without a heart_rate column, the returned mapping has  *)
(* exactly the registered metric names as keys, and every detector that    *)
(* requires heart_rate has confidence 0.0 and an error tag.                *)
C3_MissingHeartRate ==
    /\ "heart_rate" \notin df.cols =>
           \A k \in 1 .. Len(run_results) :
               "heart_rate" \in required_data_fields(run_results[k].metric_name) =>
                   /\ run_results[k].confidence = RZero
                   /\ HasError(run_results[k])
    /\ (pc = "done" /\ "heart_rate" \notin df.cols) =>
           /\ results = run_results
           /\ Len(results) = Len(detectors)
           /\ { results[k].metric_name : k \in 1 .. Len(results) }
                  = { detectors[k] : k \in 1 .. Len(detectors) }

\* a returned mapping for a series of accelerometer samples without heart
\* rate, in which the shot detector, which needs no heart rate, found a shot
C3_Witness ==
    /\ pc = "done"
    /\ "heart_rate" \notin df.cols
    /\ df.n > 12
    /\ \E k \in 1 .. Len(results) :
           /\ results[k].metric_name = "shots_detected"
           /\ results[k].value = Rat(1, 1)
    /\ \E k \in 1 .. Len(results) :
           /\ results[k].metric_name = "avg_rest_heart_rate"
           /\ results[k].metadata.error = "Missing required data fields"

(* C4: calculate_hr_zones gives a sample the zone of its heart rate as a   *)
(* percentage of max_hr: the number of the thresholds 50, 60, 70, 80, 90   *)
(* the percentage has reached; a missing heart rate gets zone 0; a lower   *)
(* heart rate never gets a higher zone under the same max_hr.              *)
C4_ZoneTable ==
    zone_out # None =>
        LET hr == zone_in.hr
            m == zone_in.max_hr20
        IN  /\ zone_out.core \in 0 .. 5
            /\ hr = NaN => zone_out.core = 0
            /\ hr # NaN =>
                   /\ zone_out.core =
                          Cardinality({ t \in {50, 60, 70, 80, 90} :
                                          hr * 2000 >= t * m })
                   /\ \A lower \in 0 .. hr :
                          calculate_hr_zones(ZoneFrame(lower), m).hr_zone[1]
                              <= zone_out.core

\* a sample exactly on the 70% threshold, classified into zone 3
C4_Witness ==
    /\ zone_out # None
    /\ zone_in.hr # NaN
    /\ zone_in.hr * 2000 = 70 * zone_in.max_hr20
    /\ zone_out.core = 3

(* C5: the ingestion service's _calculate_hr_zones gives every sample,     *)
(* missing ones included, the zone the core calculate_hr_zones gives it    *)
(* for the same max_hr.                                                    *)
C5_PortAgreesWithCore ==
    zone_out # None => zone_out.service = zone_out.core

\* a sample between the 70% and 75% marks, classified by both
C5_Witness ==
    /\ zone_out # None
    /\ zone_in.hr # NaN
    /\ zone_in.hr * 2000 >= 70 * zone_in.max_hr20
    /\ zone_in.hr * 2000 < 75 * zone_in.max_hr20
    /\ zone_out.service = 3

(* C6: every segment RallyDetector keeps has start_idx < end_idx and a     *)
(* length end_idx - start_idx from 5 to 120 samples, and the value is the  *)
(* number of entries of metadata['rallies'].                               *)
C6_SegmentBounds ==
    \A k \in StoredFor("number_of_rallies") :
        "rallies" \in DOMAIN run_results[k].metadata =>
            LET rallies == run_results[k].metadata.rallies
            IN  /\ run_results[k].value = Rat(Len(rallies), 1)
                /\ \A j \in 1 .. Len(rallies) :
                       /\ rallies[j].segment[1] < rallies[j].segment[2]
                       /\ rallies[j].segment[2] - rallies[j].segment[1] >= 5
                       /\ rallies[j].segment[2] - rallies[j].segment[1] <= 120

\* a rally result of two rallies, one of them a segment of the least length,
\* 5 samples
C6_Witness ==
    \E k \in StoredFor("number_of_rallies") :
        /\ "rallies" \in DOMAIN run_results[k].metadata
        /\ run_results[k].value = Rat(2, 1)
        /\ \E j \in 1 .. Len(run_results[k].metadata.rallies) :
               LET seg == run_results[k].metadata.rallies[j].segment
               IN  seg[2] - seg[1] = 5

(* C7: for a series sampled once per second, every rally reported in       *)
(* metadata['rallies'] has a duration, duration_minutes * 60, from 5 to    *)
(* 120 seconds.                                                            *)
C7_RallyDurationBounds ==
    df.period = 1 =>
        \A k \in StoredFor("number_of_rallies") :
            "rallies" \in DOMAIN run_results[k].metadata =>
                \A j \in 1 .. Len(run_results[k].metadata.rallies) :
                    LET minutes == run_results[k].metadata.rallies[j].duration_minutes
                    IN  /\ RLe(Rat(5, 60), minutes)
                        /\ RLe(minutes, Rat(120, 60))

(* C8: a GameDetector result without an error tag has the value            *)
(* metadata['game_breaks'] + 1, where game_breaks is the number of rest    *)
(* runs that last more than 2.0 minutes; so the value is at least 1.       *)
C8_GamesAreBreaksPlusOne ==
    (JustRan("number_of_games") /\ Last.value # None /\ ~HasError(Last)) =>
        LET rest_periods == Game_rest_periods(hr_values(df))
            long == { k \in 1 .. Len(rest_periods) :
                        RestSeconds(df, rest_periods[k]) > 2 * 60 }
        IN  /\ Last.metadata.game_breaks = Cardinality(long)
            /\ Last.value = Rat(Last.metadata.game_breaks + 1, 1)
            /\ RLe(ROne, Last.value)

\* a game result with one game break, so two games
C8_Witness ==
    /\ JustRan("number_of_games")
    /\ ~HasError(Last)
    /\ Last.metadata.game_breaks = 1
    /\ Last.value = Rat(2, 1)

(* C9: a WarmUpDetector result with confidence above 0 reports a duration  *)
(* from 2 to 5 minutes.                                                    *)
C9_WarmUpWithinTwoToFive ==
    \A k \in StoredFor("warm_up_length") :
        (run_results[k].value # None /\ RLt(RZero, run_results[k].confidence)) =>
            /\ RLe(Rat(2, 1), run_results[k].value)
            /\ RLe(run_results[k].value, Rat(5, 1))

(* C10: when the required data is there and sufficient but the heuristic   *)
(* finds no event - RallyDetector keeps no rally, GameDetector finds no    *)
(* rest run, CoolDownDetector finds no sustained decrease,                 *)
(* RestBetweenGamesDetector finds no game break - the result has value 0,  *)
(* confidence 0.0 and an error tag.                                        *)
C10_Rally ==
    (/\ JustRan("number_of_rallies")
     /\ validate_data({"heart_rate", "timestamp"}, df)
     /\ Len(hr_values(df)) >= 10
     /\ Last.value # None
     /\ MetadataRallies(Last) = <<>>) => ZeroWithError(Last)

C10_Game ==
    (/\ JustRan("number_of_games")
     /\ validate_data({"heart_rate", "timestamp"}, df)
     /\ Len(hr_values(df)) >= 50
     /\ Game_rest_periods(hr_values(df)) = <<>>) => ZeroWithError(Last)

C10_CoolDown ==
    (/\ JustRan("cool_down_length")
     /\ validate_data({"heart_rate", "timestamp"}, df)
     /\ Len(hr_values(df)) >= 20
     /\ Len(hr_values(df)) - (Len(hr_values(df)) * 4) \div 5 >= 10
     /\ ~CoolDown_sustained(Slice(hr_values(df), (Len(hr_values(df)) * 4) \div 5,
                                  Len(hr_values(df))))) => ZeroWithError(Last)

C10_RestBetweenGames ==
    (/\ JustRan("rest_between_games")
     /\ validate_data({"heart_rate", "timestamp"}, df)
     /\ Len(hr_values(df)) >= 50
     /\ \A k \in 1 .. Len(Game_rest_periods(hr_values(df))) :
            RestSeconds(df, Game_rest_periods(hr_values(df))[k]) <= 2 * 60)
        => ZeroWithError(Last)

C10_NoEventIsAnError ==
    /\ C10_Rally
    /\ C10_Game
    /\ C10_CoolDown
    /\ C10_RestBetweenGames

(* C11: when a field a detector declares as required is absent from the    *)
(* series, its detect returns confidence 0.0 and metadata.error equal to   *)
(* 'Missing required data fields'.                                         *)
C11_MissingFieldText ==
    \A k \in 1 .. Len(run_results) :
        required_data_fields(run_results[k].metric_name) \ df.cols # {} =>
            /\ run_results[k].confidence = RZero
            /\ HasError(run_results[k])
            /\ run_results[k].metadata.error = "Missing required data fields"

(* C11, amended: in that case detect returns a result of its own with      *)
(* confidence 0.0 and an error tag, whose text is 'Missing timestamp data' *)
(* for SessionDurationDetector, 'Missing accelerometer data' for           *)
(* AccelerometerShotDetector and 'Missing required data fields' for every  *)
(* other detector.                                                         *)
C11_MissingFieldError ==
    \A k \in 1 .. Len(run_results) :
        required_data_fields(run_results[k].metric_name) \ df.cols # {} =>
            /\ run_results[k].value # None
            /\ run_results[k].confidence = RZero
            /\ HasError(run_results[k])
            /\ run_results[k].metadata.error =
                   CASE run_results[k].metric_name = "total_session_duration"
                            -> "Missing timestamp data"
                     [] run_results[k].metric_name = "shots_detected"
                            -> "Missing accelerometer data"
                     [] OTHER -> "Missing required data fields"

\* a returned mapping for a series of heart rates without timestamps: the
\* three texts are there, and a detector that requires heart_rate only has
\* computed its metric
C11_Witness ==
    /\ pc = "done"
    /\ df.cols = {"heart_rate"}
    /\ \E k \in 1 .. Len(results) :
           /\ results[k].metric_name = "total_session_duration"
           /\ results[k].metadata.error = "Missing timestamp data"
    /\ \E k \in 1 .. Len(results) :
           /\ results[k].metric_name = "shots_detected"
           /\ results[k].metadata.error = "Missing accelerometer data"
    /\ \E k \in 1 .. Len(results) :
           /\ results[k].metric_name = "number_of_rallies"
           /\ results[k].metadata.error = "Missing required data fields"
    /\ \E k \in 1 .. Len(results) :
           /\ results[k].metric_name = "avg_playing_heart_rate"
           /\ ~HasError(results[k])

\* the least number of non-missing heart-rate samples the claim names for a
\* detector
C12_Minimum(name) ==
    CASE name \in {"warm_up_length", "number_of_rallies"} -> 10
      [] name = "cool_down_length" -> 20
      [] name \in {"number_of_games", "rest_between_games"} -> 50

(* C12: when the series has fewer non-missing heart-rate samples than the  *)
(* detector's minimum (WarmUp and Rally 10, CoolDown 20, Game and          *)
(* RestBetweenGames 50), detect does not raise and returns value 0,        *)
(* confidence 0.0 and an error message.                                    *)
C12_BelowMinimumIsAnError ==
    \A k \in 1 .. Len(run_results) :
        (/\ run_results[k].metric_name \in
                {"warm_up_length", "number_of_rallies", "cool_down_length",
                 "number_of_games", "rest_between_games"}
         /\ Len(hr_values(df)) < C12_Minimum(run_results[k].metric_name)) =>
            /\ run_results[k].value # None
            /\ ZeroWithError(run_results[k])

\* a series with all its columns and 24 heart-rate samples: enough for
\* WarmUp, Rally and CoolDown, which go on to their heuristics, and too few
\* for Game and RestBetweenGames, which report insufficient data
C12_Witness ==
    /\ pc = "done"
    /\ validate_data({"heart_rate", "timestamp"}, df)
    /\ Len(hr_values(df)) = 24
    /\ \E k \in 1 .. Len(results) :
           /\ results[k].metric_name = "number_of_games"
           /\ results[k].metadata.error = "Insufficient heart rate data"
    /\ \E k \in 1 .. Len(results) :
           /\ results[k].metric_name = "rest_between_games"
           /\ results[k].metadata.error = "Insufficient heart rate data"
    /\ \E k \in 1 .. Len(results) :
           /\ results[k].metric_name = "number_of_rallies"
           /\ ~HasError(results[k])

\* the series is flat but for one dip of 5 bpm over the 2 samples from index
\* p on, with at least 15 samples on either side of the dip
C13_DipAt(p) ==
    /\ 15 <= p
    /\ p + 2 + 15 <= df.n
    /\ \E base \in ScanBases : df.heart_rate = DippedSeries(df.n, base, p, 2, 5)

(* C13: for a series that is flat but for one dip of 5 bpm over 2          *)
(* consecutive samples in its middle, RallyDetector's scan records exactly *)
(* one rally boundary, the index of the first dipped sample.               *)
C13_OneBoundaryAtTheDip ==
    scan_out # None =>
        \A p \in 0 .. df.n : C13_DipAt(p) => scan_out.rally_boundaries = <<p>>

\* every heart rate of the series is the same
C14_Flat ==
    /\ df.n > 0
    /\ \A i \in 1 .. df.n : df.heart_rate[i] = df.heart_rate[1]

(* C14: for a series whose heart rate is the same at every sample,         *)
(* RallyDetector's scan records no rally boundary and CoolDownDetector     *)
(* returns value 0, confidence 0.0 and the error 'No cool-down pattern     *)
(* detected'.                                                              *)
C14_FlatSeries ==
    (scan_out # None /\ C14_Flat) =>
        /\ scan_out.rally_boundaries = <<>>
        /\ ZeroWithError(scan_out.cool_down)
        /\ scan_out.cool_down.metadata.error = "No cool-down pattern detected"

(* C14, amended: RallyDetector's scan records no rally boundary and        *)
(* CoolDownDetector returns value 0 and confidence 0.0 with an error: 'No  *)
(* cool-down pattern detected' when the series has at least 46 samples,    *)
(* 'Insufficient heart rate data' below 20 and 'Insufficient data for      *)
(* cool-down detection' from 20 to 45.                                     *)
C14_FlatSeriesOfEnoughSamples ==
    (scan_out # None /\ C14_Flat) =>
        /\ scan_out.rally_boundaries = <<>>
        /\ ZeroWithError(scan_out.cool_down)
        /\ scan_out.cool_down.metadata.error =
               IF df.n >= 46 THEN "No cool-down pattern detected"
               ELSE IF df.n >= 20 THEN "Insufficient data for cool-down detection"
               ELSE "Insufficient heart rate data"

\* the flat series of 1000 samples, scanned
C14_Witness ==
    /\ scan_out # None
    /\ C14_Flat
    /\ df.n = 1000
    /\ scan_out.cool_down.metadata.error = "No cool-down pattern detected"

\* the result stored in this run for the metric name
Stored(name) == run_results[CHOOSE k \in StoredFor(name) : TRUE]

\* the number of games and of rallies RalliesPerGameDetector works with: the
\* ones of the context, else the ones GameDetector and RallyDetector have
\* reported earlier in the run for the same series
C15_Games ==
    IF context.games # <<>> THEN Len(context.games)
    ELSE Stored("number_of_games").value[1]

C15_Rallies ==
    IF context.rallies # <<>> THEN Len(context.rallies)
    ELSE Len(MetadataRallies(Stored("number_of_rallies")))

(* C15: RalliesPerGameDetector.detect raises no division error; when the   *)
(* number of games is 0 it returns value 0, confidence 0.0 and the error   *)
(* 'No games detected', and otherwise its value is the number of rallies   *)
(* divided by the number of games.                                         *)
C15_RalliesPerGame ==
    (JustRan("rallies_per_game") /\ validate_data({"heart_rate", "timestamp"}, df)) =>
        /\ Last.value = None => Last.metadata.error # "division by zero"
        /\ C15_Games = 0 =>
               /\ ZeroWithError(Last)
               /\ Last.metadata.error = "No games detected"
        /\ C15_Games # 0 => Last.value = Rat(C15_Rallies, C15_Games)

\* the primary detector registered under name has run in this run and has
\* returned a result without an error tag
C16_HasOutput(name) ==
    /\ pc = "running"
    /\ StoredFor(name) # {}
    /\ Stored(name).value # None
    /\ ~HasError(Stored(name))

(* C16: during a run of detect_all_metrics, once a primary detector has    *)
(* produced its output - the warm-up result, the rallies, the games - the  *)
(* context handed to the detectors that run after it holds that output.    *)
C16_ContextCarriesOutputs ==
    /\ C16_HasOutput("warm_up_length") =>
           context.warmup_result = Stored("warm_up_length")
    /\ (C16_HasOutput("number_of_rallies")
           /\ MetadataRallies(Stored("number_of_rallies")) # <<>>) =>
           context.rallies = MetadataRallies(Stored("number_of_rallies"))
    /\ C16_HasOutput("number_of_games") =>
           Len(context.games) = Stored("number_of_games").value[1]

(* C17: every MetricResult a detector returns carries in algorithm_version *)
(* the algorithm_version its detector declares ('3.2' for Rally, '1.1' for *)
(* WarmUp, '2.0' for PlayingTime).                                         *)
C17_VersionCarried ==
    \A k \in 1 .. Len(run_results) :
        run_results[k].value # None =>
            run_results[k].algorithm_version =
                algorithm_version(run_results[k].metric_name)

(* C18: a run of detect_all_metrics, and of analyze_session, leaves its    *)
(* inputs as they were: the series keeps its columns and values, the       *)
(* context passed in keeps its entries, and the engine's session_context   *)
(* is the same after the run as before.                                    *)
C18_InputsUnchangedStep ==
    (pc = "running" \/ pc' = "running") =>
        /\ df' = df
        /\ session_context' = session_context
        /\ pc = "running" => context' = context

C18_InputsUnchanged == [][C18_InputsUnchangedStep]_vars

\* a finished analyze_session of an engine whose session context was set:
\* a detector has computed zones (it reports max_hr_used), and the series has
\* no hr_zone column
C18_Witness ==
    /\ pc = "done"
    /\ session_context # NoSession
    /\ context = NoContext
    /\ "hr_zone" \notin df.cols
    /\ \E k \in 1 .. Len(results) :
           /\ results[k].metric_name = "total_playing_time"
           /\ "max_hr_used" \in DOMAIN results[k].metadata

(* C19: every rally RallyDetector reports lies after the warm-up: its      *)
(* segment starts at or after warmup_samples = min(300, number of          *)
(* heart-rate samples // 4).                                               *)
C19_RalliesAfterWarmUp ==
    \A k \in StoredFor("number_of_rallies") :
        \A j \in 1 .. Len(MetadataRallies(run_results[k])) :
            MetadataRallies(run_results[k])[j].segment[1]
                >= Min2(300, Len(hr_values(df)) \div 4)

\* the maximal runs of at least 3 consecutive samples of hr below
\* rest_threshold, as pairs (first index, index after the last)
C20_MaximalRuns(hr) ==
    LET thr500 == RestThreshold500(hr)
        Below(i) == 500 * At(hr, i) < thr500
        starts == { a \in 0 .. Len(hr) - 1 :
                      Below(a) /\ (a = 0 \/ ~Below(a - 1)) }
        EndOf(a) == CHOOSE b \in a + 1 .. Len(hr) :
                        /\ \A i \in a .. b - 1 : Below(i)
                        /\ b = Len(hr) \/ ~Below(b)
    IN  { <<a, EndOf(a)>> : a \in { x \in starts : EndOf(x) - x >= 3 } }

(* C20: GameDetector and RestBetweenGamesDetector record as rest runs      *)
(* exactly the maximal runs of at least 3 consecutive samples below        *)
(* rest_threshold, wherever they lie - at the start, in the middle, or     *)
(* lasting until the final sample.                                         *)
C20_RestRunsAreTheMaximalRuns ==
    (/\ JustRan("number_of_games") \/ JustRan("rest_between_games")
     /\ validate_data({"heart_rate", "timestamp"}, df)
     /\ Len(hr_values(df)) >= 50) =>
        LET hr == hr_values(df)
            game == Game_rest_periods(hr)
            rest == RestBetweenGames_rest_periods(hr)
        IN  /\ { game[k] : k \in 1 .. Len(game) } = C20_MaximalRuns(hr)
            /\ { rest[k] : k \in 1 .. Len(rest) } = C20_MaximalRuns(hr)
            /\ C20_MaximalRuns(hr) # {} =>
                   ~(HasError(Last) /\ Last.metadata.error = "No rest periods detected")

\* the scan of RallyDetector is in its drop state at index i: the smoothed
\* heart rate is at least 1 bpm below the maximum of the (up to) 15
\* smoothed samples before it
C21_InDrop(i) == InDropAt(hr_smooth10(hr_values(df)), i)

(* C21: every boundary RallyDetector's scan over 10 .. len-11 records is   *)
(* an index at which the drop state was entered, of a drop the scan has    *)
(* left before its last index; the boundaries are strictly increasing and  *)
(* consecutive ones at least 3 samples apart.                              *)
C21_BoundariesAreDropEntries ==
    scan_out # None =>
        LET b == scan_out.rally_boundaries IN
        /\ \A k \in 1 .. Len(b) :
               /\ 10 <= b[k]
               /\ C21_InDrop(b[k])
               /\ b[k] = 10 \/ ~C21_InDrop(b[k] - 1)
               /\ \E e \in b[k] + 1 .. df.n - 11 :
                      /\ ~C21_InDrop(e)
                      /\ \A j \in b[k] .. e - 1 : C21_InDrop(j)
        /\ \A k \in 1 .. Len(b) - 1 : b[k + 1] - b[k] >= 3

\* a scan that has entered and left two drops, and recorded both
C21_Witness ==
    /\ scan_out # None
    /\ Len(scan_out.rally_boundaries) = 2

\* the last 20% of the series, the part CoolDownDetector looks at
C22_cooldown_data ==
    Slice(hr_values(df), (Len(hr_values(df)) * 4) \div 5, Len(hr_values(df)))

\* the number of negative first differences of the smoothed last 20%
C22_Negative ==
    DecreasingCount(C22_cooldown_data, Min2(10, Len(C22_cooldown_data) \div 3))

(* C22: CoolDownDetector reports a cool-down exactly when at least 60% of  *)
(* the first differences of the smoothed heart rate over the last 20% of   *)
(* the series are negative, a series at the 60% mark included.             *)
C22_SixtyPercentIsACoolDown ==
    (scan_out # None /\ Len(hr_values(df)) >= 20 /\ Len(C22_cooldown_data) >= 10) =>
        (~HasError(scan_out.cool_down)
            <=> 5 * C22_Negative >= 3 * Len(C22_cooldown_data))

(* C23: on the same series RestBetweenGamesDetector finds the game breaks  *)
(* GameDetector finds: when neither returns an error, number_of_games is   *)
(* RestBetweenGames' game_breaks + 1, and RestBetweenGames returns 'No     *)
(* game breaks detected' exactly when GameDetector reports 1 game.         *)
C23_SameGameBreaks ==
    \A kg \in StoredFor("number_of_games") :
        \A kr \in StoredFor("rest_between_games") :
            LET games == run_results[kg]
                rest == run_results[kr]
            IN  /\ (~HasError(games) /\ ~HasError(rest)) =>
                       games.value = Rat(rest.metadata.game_breaks + 1, 1)
                /\ (HasError(rest)
                        /\ rest.metadata.error = "No game breaks detected")
                       <=> (~HasError(games) /\ games.value = Rat(1, 1))

\* a run in which both detectors found one game break, so two games
C23_Witness ==
    /\ StoredFor("number_of_games") # {}
    /\ StoredFor("rest_between_games") # {}
    /\ ~HasError(Stored("number_of_games"))
    /\ ~HasError(Stored("rest_between_games"))
    /\ Stored("rest_between_games").metadata.game_breaks = 1
    /\ Stored("number_of_games").value = Rat(2, 1)

\* the series has the heart_rate column and rows, and every heart rate is
\* missing
C25_EmptyHeartRate ==
    /\ "heart_rate" \in df.cols
    /\ df.n > 0
    /\ \A i \in 1 .. df.n : df.heart_rate[i] = NaN

(* C25: a detector that requires a field whose column is there but holds   *)
(* no value returns, as for an absent field, confidence 0.0 and            *)
(* metadata.error.                                                         *)
C25_EmptyFieldIsAnError ==
    C25_EmptyHeartRate =>
        \A k \in 1 .. Len(run_results) :
            "heart_rate" \in required_data_fields(run_results[k].metric_name) =>
                /\ run_results[k].confidence = RZero
                /\ HasError(run_results[k])

\* the series has the heart_rate and timestamp columns and at least 10
\* heart rates
C26_TenHeartRates ==
    /\ HrCols \subseteq df.cols
    /\ Len(hr_values(df)) >= 10

(* C26: for a series with at least 10 heart-rate samples                   *)
(* WarmUpDetector.detect returns a result without raising, and the end of  *)
(* its span data_points = [(0, end)] is an index of the series: end < n.   *)
C26_WarmUpEndsInsideTheSeries ==
    \A k \in StoredFor("warm_up_length") :
        C26_TenHeartRates =>
            /\ ~WarmUp_detect(df, context).raised
            /\ run_results[k].data_points # None
            /\ run_results[k].data_points[1][2] < df.n

(* C27: for a series with the heart_rate and timestamp columns and at      *)
(* least 10 heart-rate samples RallyDetector.detect returns a result       *)
(* without raising, with or without the time_diff and cumulative_time      *)
(* columns and whatever the number of rallies.                             *)
C27_RallyNeverRaises ==
    \A k \in StoredFor("number_of_rallies") :
        C26_TenHeartRates =>
            /\ ~Rally_detect(df, context).raised
            /\ run_results[k].value # None

\* what get_metric_result answers for each name of RegistryNames
C28_Answers == [name \in RegistryNames |-> get_metric_result(name)]

\* a step of the framework keeps one registry entry per name; the step on
\* which detect_all_metrics returns makes get_metric_result answer with the
\* entries of that run - the outcome of each registered detector on the
\* frame and context of the call, None for a name that is not registered -
\* and no other step changes an answer
C28_RegistryStep ==
    /\ \A i, j \in 1 .. Len(detectors') :
           detectors'[i] = detectors'[j] => i = j
    /\ IF pc = "running" /\ pc' = "done"
       THEN \A name \in RegistryNames :
                C28_Answers'[name] =
                    IF \E k \in 1 .. Len(detectors) : detectors[k] = name
                    THEN TryDetect(name, detect(name, df, context))
                    ELSE None
       ELSE C28_Answers' = C28_Answers

(* C28: after any sequence of register_detector and detect_all_metrics     *)
(* calls the registry holds one detector per metric name, and              *)
(* get_metric_result(name) is the entry for name in the mapping the most   *)
(* recent detect_all_metrics call returned: None before any run and for a  *)
(* name that was not run, and never an entry of an earlier run.            *)
C28_RegistryAndResults ==
    /\ \A name \in RegistryNames : get_metric_result(name) = None
    /\ [][C28_RegistryStep]_vars

\* a later call is running on a framework that has returned before, and its
\* first entry differs from the one the earlier run stored for that name
C28_Witness ==
    /\ pc = "running"
    /\ results # <<>>
    /\ run_results # <<>>
    /\ get_metric_result(run_results[1].metric_name) # None
    /\ get_metric_result(run_results[1].metric_name) # run_results[1]

(* C24: the deterioration point detect_performance_deterioration reports   *)
(* is the weighted average of the points of the flagged indicators, so it  *)
(* lies between the smallest and the largest of them, and is the point of  *)
(* the indicator when only one is flagged.                                 *)
C24_PointAmongTheFlagged ==
    LET det == performance_analysis.deterioration IN
    (det # None /\ det.indicators # <<>>) =>
        /\ \E k \in 1 .. Len(det.indicators) :
               RLe(det.indicators[k].point, det.deterioration_point)
        /\ \E k \in 1 .. Len(det.indicators) :
               RLe(det.deterioration_point, det.indicators[k].point)

\* the bands of the reported distribution that count sample i of the series
C29_BandsOf(i) ==
    LET zones == performance_analysis.intensity_zones.zones IN
    { k \in 1 .. 4 :
        /\ 20 * hr_values(df)[i] >= zones[k][1]
        /\ 20 * hr_values(df)[i] < zones[k][2] }

(* C29: for a series with at least 10 heart-rate samples                   *)
(* analyze_intensity_zones returns the four bands recovery, aerobic,       *)
(* threshold and anaerobic, every sample is counted in exactly one of      *)
(* them, and the four percentages sum to 100.                              *)
C29_BandsCoverTheSeries ==
    LET zones == performance_analysis.intensity_zones IN
    (zones # None /\ Len(hr_values(df)) >= 10) =>
        /\ DOMAIN zones.zone_distribution = 1 .. 4
        /\ \A i \in 1 .. Len(hr_values(df)) : Cardinality(C29_BandsOf(i)) = 1
        /\ zones.zone_distribution[1].points + zones.zone_distribution[2].points
               + zones.zone_distribution[3].points
               + zones.zone_distribution[4].points = Len(hr_values(df))

\* the end (exclusive) of the run of indices of above that starts at s
C30_RunEnd(above, n, s) ==
    CHOOSE t \in s + 1 .. n :
        /\ t \notin above
        /\ \A i \in s .. t - 1 : i \in above

\* the maximal runs of at least 5 consecutive indices of above, a set of
\* indices of 0 .. n-1, as (start, end) pairs with end exclusive
C30_RunsOf(above, n) ==
    { <<s, C30_RunEnd(above, n, s)>> :
        s \in { x \in above :
                  /\ x - 1 \notin above
                  /\ C30_RunEnd(above, n, x) - x >= 5 } }

\* the indices (0-based) of the samples above thr50 / 50
C30_Above(hr, thr50) == { i \in 0 .. Len(hr) - 1 : 50 * At(hr, i) > thr50 }

\* the maximal runs of at least 5 consecutive samples above the rally
\* threshold of the reported analysis
C30_MaximalRuns ==
    C30_RunsOf(C30_Above(hr_values(df),
                         RallyThreshold50(hr_values(df),
                                          event_analysis.warmup.end_time)),
               Len(hr_values(df)))

====
